---- MODULE Spec2Model ----
(***************************************************************************)
(* Model of the SWGoH coach backend (src/server.js): the roster            *)
(* normalisation pipeline of GET /api/player/:code (stat decoder, name     *)
(* resolver, skill classifier, normaliser) and the two process-wide        *)
(* caches it reads.                                                        *)
(*                                                                         *)
(* JavaScript values are tagged records: [t |-> "undefined"],              *)
(* [t |-> "number", v |-> n], [t |-> "string", v |-> <<chars>>],           *)
(* [t |-> "nan"], [t |-> "function"], [t |-> "object", ...].  A JavaScript  *)
(* string is a sequence of one-character strings, so that split, replace,  *)
(* toLowerCase and parseInt are computed character by character.           *)
(***************************************************************************)
EXTENDS Integers, Sequences, FiniteSets, TLC

VARIABLES
    unitNameMap,    \* var unitNameMap = {}            (server.js:23)
    nameMapReady,   \* var nameMapReady = false        (server.js:24)
    skillDataMap,   \* var skillDataMap = {}           (server.js:185)
    skillDataReady, \* var skillDataReady = false      (server.js:186)
    pc,             \* position of the operation in progress
    arg,            \* the input of the operation in progress
    ret             \* what the operation returned or responded

vars == <<unitNameMap, nameMapReady, skillDataMap, skillDataReady, pc, arg, ret>>
cacheVars == <<unitNameMap, nameMapReady, skillDataMap, skillDataReady>>

-----------------------------------------------------------------------------
(* JavaScript values *)

Undefined == [t |-> "undefined"]
Null == [t |-> "null"]
NaN == [t |-> "nan"]
Num(n) == [t |-> "number", v |-> n]
Bool(b) == [t |-> "boolean", v |-> b]
Str(s) == [t |-> "string", v |-> s]
\* a property inherited from Object.prototype (constructor, toString, ...)
Inherited == [t |-> "function"]
\* the outcome of an expression that raised
Thrown(name) == [t |-> "throw", name |-> name]

IsNum(x) == x.t = "number"
IsStr(x) == x.t = "string"

\* ToBoolean
Truthy(x) ==
    CASE x.t = "undefined" -> FALSE
      [] x.t = "null" -> FALSE
      [] x.t = "nan" -> FALSE
      [] x.t = "number" -> x.v # 0
      [] x.t = "string" -> x.v # <<>>
      [] x.t = "boolean" -> x.v
      [] OTHER -> TRUE

\* a || b
Or(a, b) == IF Truthy(a) THEN a ELSE b

\* the sequences over S of length at most n
SeqUpTo(S, n) == UNION {[1..k -> S] : k \in 0..n}

Digits == <<"0", "1", "2", "3", "4", "5", "6", "7", "8", "9">>
IsDigit(c) == \E i \in 1..10 : Digits[i] = c
DigitVal(c) == (CHOOSE i \in 1..10 : Digits[i] = c) - 1

LowerChars == <<"a", "b", "c", "d", "e", "f", "g", "h", "i", "j", "k", "l", "m",
                "n", "o", "p", "q", "r", "s", "t", "u", "v", "w", "x", "y", "z">>
UpperChars == <<"A", "B", "C", "D", "E", "F", "G", "H", "I", "J", "K", "L", "M",
                "N", "O", "P", "Q", "R", "S", "T", "U", "V", "W", "X", "Y", "Z">>
IsLower(c) == \E i \in 1..26 : LowerChars[i] = c
IsUpper(c) == \E i \in 1..26 : UpperChars[i] = c
ToLowerChar(c) == IF IsUpper(c) THEN LowerChars[CHOOSE i \in 1..26 : UpperChars[i] = c] ELSE c
ToUpperChar(c) == IF IsLower(c) THEN UpperChars[CHOOSE i \in 1..26 : LowerChars[i] = c] ELSE c
\* the regular expression class \w
IsWordChar(c) == IsLower(c) \/ IsUpper(c) \/ IsDigit(c) \/ c = "_"

\* Number.prototype.toString for an integer
RECURSIVE NatToString(_)
NatToString(n) ==
    IF n < 10 THEN <<Digits[n + 1]>>
    ELSE NatToString(n \div 10) \o <<Digits[(n % 10) + 1]>>
IntToString(n) == IF n < 0 THEN <<"-">> \o NatToString(-n) ELSE NatToString(n)

\* String(x)
JsString(x) ==
    CASE x.t = "string" -> x.v
      [] x.t = "number" -> IntToString(x.v)
      [] x.t = "undefined" -> <<"u", "n", "d", "e", "f", "i", "n", "e", "d">>
      [] x.t = "null" -> <<"n", "u", "l", "l">>
      [] OTHER -> <<"N", "a", "N">>

\* the value of the longest prefix of s made of decimal digits, given the
\* value acc of the digits already read
RECURSIVE DigitsPrefix(_, _)
DigitsPrefix(s, acc) ==
    IF s = <<>> \/ ~IsDigit(Head(s)) THEN acc
    ELSE DigitsPrefix(Tail(s), acc * 10 + DigitVal(Head(s)))

RECURSIVE TrimLeft(_)
TrimLeft(s) == IF s # <<>> /\ Head(s) = " " THEN TrimLeft(Tail(s)) ELSE s

\* parseInt(x): leading blanks are skipped, a sign is read, then the longest
\* run of decimal digits; NaN when there is no digit
ParseInt(x) ==
    LET s == TrimLeft(JsString(x))
        neg == s # <<>> /\ Head(s) = "-"
        body == IF s # <<>> /\ (Head(s) = "-" \/ Head(s) = "+") THEN Tail(s) ELSE s
    IN  IF body = <<>> \/ ~IsDigit(Head(body)) THEN NaN
        ELSE Num((IF neg THEN -1 ELSE 1) * DigitsPrefix(body, 0))

\* The names every object literal inherits from Object.prototype: obj[key]
\* finds them although the object has no such entry of its own.
ObjectPrototypeKeys ==
    { <<"c", "o", "n", "s", "t", "r", "u", "c", "t", "o", "r">>,
      <<"t", "o", "S", "t", "r", "i", "n", "g">>,
      <<"v", "a", "l", "u", "e", "O", "f">>,
      <<"_", "_", "p", "r", "o", "t", "o", "_", "_">> }

\* obj[key] for a plain object whose own entries are the function own
Get(own, key) ==
    IF key \in DOMAIN own THEN own[key]
    ELSE IF key \in ObjectPrototypeKeys THEN Inherited
    ELSE Undefined

-----------------------------------------------------------------------------
(* Stat decoder *)

PERCENT_STAT_IDS ==
    [k \in { <<"1", "6">>, <<"1", "7">>, <<"1", "8">>, <<"4", "8">>, <<"4", "9">>,
             <<"5", "2">>, <<"5", "3">>, <<"5", "4">>, <<"5", "5">>, <<"5", "6">> }
        |-> Num(1)]

\* A decoded stat value is a number with four decimal places: it is carried
\* as the integer e4 = value * 10^4.
Dec4(e4) == [t |-> "number", e4 |-> e4]

\* Math.round of the rational p / q, q > 0 (halves go up)
RoundDiv(p, q) == (2 * p + q) \div (2 * q)

RECURSIVE Gcd(_, _)
Gcd(a, b) == IF b = 0 THEN a ELSE Gcd(b, a % b)

\* (p / q).toFixed(4) read back by parseFloat, as an integer count of 10^-4:
\* p * 10^4 / q rounded, the fraction reduced first to stay within 32 bits
ToFixed4(p, q) ==
    LET g == Gcd(10000, q)
    IN  RoundDiv(p * (10000 \div g), q \div g)

\* the scaling the comment of line 620 describes: v / 1000000, not times 100
PercentDecodeUnscaled(v) == IF v.t = "nan" THEN NaN ELSE Dec4(ToFixed4(v.v, 1000000))

\* parseFloat((v / 1000000 * 100).toFixed(4))
PercentDecode(v) == IF v.t = "nan" THEN NaN ELSE Dec4(ToFixed4(v.v * 100, 1000000))
\* Math.round(v / 10000)
FlatDecode(v) == IF v.t = "nan" THEN NaN ELSE Dec4(10000 * RoundDiv(v.v, 10000))

IsPercentStat(statId) == Truthy(Get(PERCENT_STAT_IDS, JsString(statId)))

decodeStatValue(statId, rawVal) ==
    LET v == ParseInt(Or(rawVal, Num(0)))
    IN  IF IsPercentStat(statId) THEN PercentDecode(v) ELSE FlatDecode(v)

-----------------------------------------------------------------------------
(* Name resolver *)

Unknown == <<"U", "n", "k", "n", "o", "w", "n">>

\* s.split(':')[0]
RECURSIVE BeforeColon(_)
BeforeColon(s) ==
    IF s = <<>> \/ Head(s) = ":" THEN <<>> ELSE <<Head(s)>> \o BeforeColon(Tail(s))

\* .replace(/_/g, ' ')
UnderscoresToSpaces(s) == [i \in 1..Len(s) |-> IF s[i] = "_" THEN " " ELSE s[i]]
\* .toLowerCase()
ToLowerCase(s) == [i \in 1..Len(s) |-> ToLowerChar(s[i])]
\* .replace(/\b\w/g, c => c.toUpperCase()): a word character that follows no
\* word character is upper-cased
CapitalizeWords(s) ==
    [i \in 1..Len(s) |->
        IF IsWordChar(s[i]) /\ (i = 1 \/ ~IsWordChar(s[i - 1]))
        THEN ToUpperChar(s[i]) ELSE s[i]]

cleanUnitId(id) ==
    IF id = <<>> THEN Str(Unknown)
    ELSE Str(CapitalizeWords(ToLowerCase(UnderscoresToSpaces(id))))

\* a base id replaced by the display name of the unit where the table has one
baseIdNamed(definitionId) ==
    LET d == Or(definitionId, Str(<<>>))
    IN  IF d.t # "string" THEN Thrown("TypeError")
        ELSE IF Truthy(Get(unitNameMap, BeforeColon(d.v))) THEN Get(unitNameMap, BeforeColon(d.v))
        ELSE Str(BeforeColon(d.v))

\* (definitionId || '').split(':')[0]: only a string has split, any other
\* truthy value raises a TypeError
baseIdOf(definitionId) ==
    LET d == Or(definitionId, Str(<<>>))
    IN  IF d.t = "string" THEN Str(BeforeColon(d.v)) ELSE Thrown("TypeError")

getUnitName(definitionId) ==
    LET baseId == baseIdOf(definitionId)
    IN  IF baseId.t = "throw" THEN baseId
        ELSE IF Truthy(Get(unitNameMap, baseId.v)) THEN Get(unitNameMap, baseId.v)
        ELSE cleanUnitId(baseId.v)

-----------------------------------------------------------------------------
(* Roster unit normalisation: the body of rosterUnits.forEach *)

\* {} : an object without own properties
EmptyMap == [k \in {} |-> Undefined]
NoFields == EmptyMap

Obj(fields) == [t |-> "object", f |-> fields]
Arr(items) == [t |-> "array", v |-> items]

\* x.name for a field name the code writes out: undefined when x is an
\* object without that field or an inherited function; reading a field of
\* undefined or null raises and is guarded at every use below
Field(x, name) ==
    IF x.t = "object" /\ name \in DOMAIN x.f THEN x.f[name] ELSE Undefined

\* a > n and a >= n for a number n: false for undefined and NaN
Gt(a, n) == a.t = "number" /\ a.v > n
Ge(a, n) == a.t = "number" /\ a.v >= n

\* (x || []).forEach without the || [] guard: raises for a missing list
RaisesForEachUnguarded(x) == x.t # "array"
\* (x || []).forEach raises for a truthy x that is no array
RaisesForEach(x) == Truthy(x) /\ x.t # "array"
\* the items (x || []).forEach visits
ItemsOrNone(x) == IF x.t = "array" THEN x.v ELSE <<>>
\* reading a property of null or undefined raises
RaisesOnRead(x) == x.t \in {"null", "undefined"}
AnyRaisesOnRead(items) == \E i \in 1..Len(items) : RaisesOnRead(items[i])

\* var relicRaw = (unit.relic && unit.relic.currentTier) ? unit.relic.currentTier : 0
relicRawOf(unit) ==
    LET relic == Field(unit, "relic")
    IN  IF Truthy(relic) /\ Truthy(Field(relic, "currentTier"))
        THEN Field(relic, "currentTier") ELSE Num(0)

\* a display value that keeps the raw relic tier
relicDisplayRaw(relicRaw) == relicRaw

\* var relicDisplay = relicRaw > 2 ? relicRaw - 2 : 0
relicDisplayOf(relicRaw) == IF Gt(relicRaw, 2) THEN Num(relicRaw.v - 2) ELSE Num(0)

\* var inGameTier = (sk.tier || 0) + 1
inGameTierOf(sk) == Num(Or(Field(sk, "tier"), Num(0)).v + 1)

\* the owned skill counts through the definition table
usesSkillDef(sk) ==
    Truthy(Get(skillDataMap, JsString(Field(sk, "id")))) /\ skillDataReady

\* a classifier that compares the raw applied tier, without the + 1
hasZetaRawTier(sk) ==
    LET skillDef == Get(skillDataMap, JsString(Field(sk, "id")))
        rawTier == Or(Field(sk, "tier"), Num(0))
    IN  IF usesSkillDef(sk)
        THEN Gt(Field(skillDef, "zetaTier"), 0)
             /\ rawTier.v >= Field(skillDef, "zetaTier").v
        ELSE Ge(rawTier, 8)

\* a classifier that takes a threshold of 0 for a threshold
hasZetaAnyThreshold(sk) ==
    LET skillDef == Get(skillDataMap, JsString(Field(sk, "id")))
        inGameTier == inGameTierOf(sk)
    IN  IF usesSkillDef(sk)
        THEN Ge(Field(skillDef, "zetaTier"), 0)
             /\ inGameTier.v >= Field(skillDef, "zetaTier").v
        ELSE Ge(inGameTier, 8)

\* zetas++ for this skill
hasZeta(sk) ==
    LET skillDef == Get(skillDataMap, JsString(Field(sk, "id")))
        inGameTier == inGameTierOf(sk)
    IN  IF usesSkillDef(sk)
        THEN Gt(Field(skillDef, "zetaTier"), 0)
             /\ inGameTier.v >= Field(skillDef, "zetaTier").v
        ELSE Ge(inGameTier, 8)

\* omicrons++ for this skill
hasOmicron(sk) ==
    LET skillDef == Get(skillDataMap, JsString(Field(sk, "id")))
        inGameTier == inGameTierOf(sk)
    IN  IF usesSkillDef(sk)
        THEN Gt(Field(skillDef, "omicronTier"), 0)
             /\ inGameTier.v >= Field(skillDef, "omicronTier").v
        ELSE Ge(inGameTier, 9)

\* var zetas = 0 ... zetas++ over the skills
RECURSIVE zetasOf(_)
zetasOf(skills) ==
    IF skills = <<>> THEN 0
    ELSE (IF hasZeta(Head(skills)) THEN 1 ELSE 0) + zetasOf(Tail(skills))

\* var omicrons = 0 ... omicrons++ over the skills
RECURSIVE omicronsOf(_)
omicronsOf(skills) ==
    IF skills = <<>> THEN 0
    ELSE (IF hasOmicron(Head(skills)) THEN 1 ELSE 0) + omicronsOf(Tail(skills))

\* modData.primary
modPrimary(mod) ==
    LET ps == Field(mod, "primaryStat")
        st == Field(ps, "stat")
        pStatId == Str(JsString(Or(Field(st, "unitStat"), Or(Field(st, "unitStatId"), Str(<<>>)))))
    IN  IF Truthy(ps) /\ Truthy(st)
        THEN Obj([stat |-> pStatId,
                  value |-> decodeStatValue(pStatId, Field(st, "unscaledDecimalValue"))])
        ELSE Null

\* one entry of modData.secondaries
modSecondary(sec) ==
    LET st == Field(sec, "stat")
        sStatId == Str(JsString(Or(Field(st, "unitStatId"), Or(Field(st, "unitStat"), Str(<<>>)))))
    IN  Obj([stat |-> sStatId,
             value |-> decodeStatValue(sStatId, Field(st, "unscaledDecimalValue")),
             rolls |-> Or(Field(sec, "statRolls"), Num(0))])

RECURSIVE modSecondaries(_)
modSecondaries(secs) ==
    IF secs = <<>> THEN <<>>
    ELSE (IF Truthy(Field(Head(secs), "stat")) THEN <<modSecondary(Head(secs))>> ELSE <<>>)
         \o modSecondaries(Tail(secs))

\* the body of rawMods.forEach
modDataOf(mod) ==
    Obj([definitionId |-> Or(Field(mod, "definitionId"), Str(<<>>)),
         level |-> Or(Field(mod, "level"), Num(0)),
         tier |-> Or(Field(mod, "tier"), Num(0)),
         primary |-> modPrimary(mod),
         secondaries |-> Arr(modSecondaries(ItemsOrNone(Field(mod, "secondaryStat"))))])

modsOf(unit) ==
    LET rawMods == ItemsOrNone(Field(unit, "equippedStatMod"))
    IN  [i \in 1..Len(rawMods) |-> modDataOf(rawMods[i])]

\* a combat type inferred from the gear level alone
combatTypeByGear(unit) ==
    LET gear == Or(Field(unit, "currentTier"), Num(0))
        combatType == Or(Field(unit, "combatType"), Num(0))
    IN  IF ~Truthy(combatType) THEN (IF Gt(gear, 1) THEN Num(1) ELSE Num(2))
        ELSE combatType

\* var combatType = unit.combatType || 0, inferred from gear and relic when 0
combatTypeOf(unit) ==
    LET gear == Or(Field(unit, "currentTier"), Num(0))
        combatType == Or(Field(unit, "combatType"), Num(0))
    IN  IF ~Truthy(combatType)
        THEN (IF Gt(gear, 1) \/ Gt(relicRawOf(unit), 0) THEN Num(1) ELSE Num(2))
        ELSE combatType

\* new Array(n): n empty slots
ArrayOfLength(n) == Arr([i \in 1..n |-> Null])

\* the places of the forEach body that raise: split of a definition id that
\* is no string, forEach of a skill, mod or secondary list that is no array,
\* a property read of a unit, skill, mod or secondary that is null
unitRaises(unit) ==
    \/ RaisesOnRead(unit)
    \/ baseIdOf(Field(unit, "definitionId")).t = "throw"
    \/ RaisesForEach(Field(unit, "skill"))
    \/ AnyRaisesOnRead(ItemsOrNone(Field(unit, "skill")))
    \/ RaisesForEach(Field(unit, "equippedStatMod"))
    \/ LET rawMods == ItemsOrNone(Field(unit, "equippedStatMod"))
       IN  \/ AnyRaisesOnRead(rawMods)
           \/ \E i \in 1..Len(rawMods) :
                 \/ RaisesForEach(Field(rawMods[i], "secondaryStat"))
                 \/ AnyRaisesOnRead(ItemsOrNone(Field(rawMods[i], "secondaryStat")))

\* var parsed = {...}, with the computed stats merged in for a character
parsedUnit(unit, unitStatsMap) ==
    LET baseId == baseIdOf(Field(unit, "definitionId"))
        gear == Or(Field(unit, "currentTier"), Num(0))
        skills == ItemsOrNone(Field(unit, "skill"))
        combatType == combatTypeOf(unit)
    IN  Obj([base_id |-> baseId,
             name |-> getUnitName(Field(unit, "definitionId")),
             combat_type |-> combatType,
             rarity |-> Or(Field(unit, "currentRarity"), Num(0)),
             level |-> Or(Field(unit, "currentLevel"), Num(0)),
             gear_level |-> IF combatType = Num(1) THEN gear ELSE Num(0),
             relic_tier |-> relicDisplayOf(relicRawOf(unit)),
             power |-> Num(0),
             zeta_abilities |-> ArrayOfLength(zetasOf(skills)),
             omicron_abilities |-> ArrayOfLength(omicronsOf(skills)),
             mods |-> IF combatType = Num(1) THEN Arr(modsOf(unit)) ELSE Arr(<<>>),
             stats |-> IF combatType = Num(1) /\ Truthy(Get(unitStatsMap, baseId.v))
                       THEN Get(unitStatsMap, baseId.v) ELSE Undefined])

\* one pass of the forEach body: the parsed unit, or the exception
normalizeUnit(unit, unitStatsMap) ==
    IF unitRaises(unit) THEN Thrown("TypeError") ELSE parsedUnit(unit, unitStatsMap)

-----------------------------------------------------------------------------
(* Player payload normalisation: the extraction steps around the roster *)

\* s.toUpperCase()
ToUpperCase(s) == [i \in 1..Len(s) |-> ToUpperChar(s[i])]

\* s.indexOf(sub) >= 0
Contains(s, sub) ==
    \E i \in 0..(Len(s) - Len(sub)) : \A j \in 1..Len(sub) : s[i + j] = sub[j]

\* (x || '').toUpperCase(): only a string has toUpperCase
RaisesStringMethod(x) == Truthy(x) /\ x.t # "string"
StringOrEmpty(x) == IF x.t = "string" THEN x.v ELSE <<>>

\* parseInt(x) || 0
ParseIntOrZero(x) == Or(ParseInt(x), Num(0))

\* the first pass over profileStat: the name keys, the last match winning
RECURSIVE gpByNameKey(_, _)
gpByNameKey(stats, gp) ==
    IF stats = <<>> THEN gp
    ELSE LET s == Head(stats)
             key == ToUpperCase(StringOrEmpty(Field(s, "nameKey")))
             val == ParseIntOrZero(Field(s, "value"))
             isTotal == /\ Contains(key, <<"G", "A", "L", "A", "C", "T", "I", "C", "_", "P", "O", "W", "E", "R">>)
                        /\ ~Contains(key, <<"C", "H", "A", "R">>)
                        /\ ~Contains(key, <<"S", "H", "I", "P">>)
             isChar == Contains(key, <<"C", "H", "A", "R">>) /\ Contains(key, <<"G", "A", "L", "A", "C", "T", "I", "C">>)
             isShip == Contains(key, <<"S", "H", "I", "P">>) /\ Contains(key, <<"G", "A", "L", "A", "C", "T", "I", "C">>)
         IN  gpByNameKey(Tail(stats),
                 [total |-> IF isTotal THEN val ELSE gp.total,
                  char |-> IF isChar THEN val ELSE gp.char,
                  ship |-> IF isShip THEN val ELSE gp.ship])

\* the second pass, taken when the first left gpTotal at 0: index, statId or
\* id equal to 1 or '1'
RECURSIVE gpByIndex(_, _)
gpByIndex(stats, total) ==
    IF stats = <<>> THEN total
    ELSE LET s == Head(stats)
             id == Or(Field(s, "index"), Or(Field(s, "statId"), Or(Field(s, "id"), Str(<<>>))))
             val == ParseIntOrZero(Field(s, "value"))
         IN  gpByIndex(Tail(stats), IF id = Str(<<"1">>) \/ id = Num(1) THEN val ELSE total)

gpRaises(raw) ==
    \/ RaisesForEach(Field(raw, "profileStat"))
    \/ LET stats == ItemsOrNone(Field(raw, "profileStat"))
       IN  \/ AnyRaisesOnRead(stats)
           \/ \E i \in 1..Len(stats) : RaisesStringMethod(Field(stats[i], "nameKey"))

\* var gpTotal, gpChar, gpShip left without their initial 0
gpUnset(raw) == [total |-> Undefined, char |-> Undefined, ship |-> Undefined]
\* gpTotal, gpChar, gpShip
gpOf(raw) ==
    LET stats == ItemsOrNone(Field(raw, "profileStat"))
        byKey == gpByNameKey(stats, [total |-> Num(0), char |-> Num(0), ship |-> Num(0)])
    IN  IF byKey.total = Num(0) /\ Len(stats) > 0
        THEN [byKey EXCEPT !.total = gpByIndex(stats, byKey.total)]
        ELSE byKey

\* response.arena.rank and response.fleet_arena.rank: the last entry of each
\* tab wins
RECURSIVE ranksOf(_, _)
ranksOf(pvps, ranks) ==
    IF pvps = <<>> THEN ranks
    ELSE LET pvp == Head(pvps)
             tab == ParseIntOrZero(Field(pvp, "tab"))
             rank == Or(Field(pvp, "rank"), Null)
         IN  ranksOf(Tail(pvps),
                 [arena |-> IF tab = Num(1) THEN rank ELSE ranks.arena,
                  fleet |-> IF tab = Num(2) THEN rank ELSE ranks.fleet])

RECURSIVE firstWithLeague(_)
RECURSIVE lastWithLeague(_)

\* a scan that keeps the last entry with a league
lastWithLeague(seasons) ==
    IF seasons = <<>> THEN Null
    ELSE IF Truthy(Field(seasons[Len(seasons)], "league")) THEN seasons[Len(seasons)]
    ELSE lastWithLeague(SubSeq(seasons, 1, Len(seasons) - 1))

\* gaSeasonStatus: the first entry of seasonStatus with a league
firstWithLeague(seasons) ==
    IF seasons = <<>> THEN Null
    ELSE IF Truthy(Field(Head(seasons), "league")) THEN Head(seasons)
    ELSE firstWithLeague(Tail(seasons))

arenaRaises(raw) ==
    \/ RaisesForEach(Field(raw, "pvpProfile"))
    \/ AnyRaisesOnRead(ItemsOrNone(Field(raw, "pvpProfile")))
    \/ RaisesForEach(Field(raw, "seasonStatus"))
    \/ AnyRaisesOnRead(ItemsOrNone(Field(raw, "seasonStatus")))

\* response.grand_arena
grandArenaOf(raw) ==
    LET ga == firstWithLeague(ItemsOrNone(Field(raw, "seasonStatus")))
        bySeason ==
            IF Truthy(ga)
            THEN [rank |-> Null,
                  league_tier |-> Field(ga, "league"),
                  division_tier |-> Field(ga, "division"),
                  season_points |-> Or(Field(ga, "seasonPoints"), Null),
                  wins |-> Or(Field(ga, "wins"), Num(0)),
                  losses |-> Or(Field(ga, "losses"), Num(0))]
            ELSE [rank |-> Null, league_tier |-> Null, division_tier |-> Null]
        prs == Field(Field(raw, "playerRating"), "playerRankStatus")
    IN  IF Truthy(Field(raw, "playerRating")) /\ Truthy(prs) /\ ~Truthy(bySeason.league_tier)
        THEN Obj([bySeason EXCEPT !.league_tier = Or(Field(prs, "leagueId"), Null),
                                  !.division_tier = Or(Field(prs, "divisionId"), Null)])
        ELSE Obj(bySeason)

\* the characters of the field names a payload of the model can carry
FieldNameChars ==
    [name |-> <<"n", "a", "m", "e">>, allyCode |-> <<"a", "l", "l", "y", "C", "o", "d", "e">>, guildName |-> <<"g", "u", "i", "l", "d", "N", "a", "m", "e">>,
     level |-> <<"l", "e", "v", "e", "l">>, rosterUnit |-> <<"r", "o", "s", "t", "e", "r", "U", "n", "i", "t">>, profileStat |-> <<"p", "r", "o", "f", "i", "l", "e", "S", "t", "a", "t">>,
     pvpProfile |-> <<"p", "v", "p", "P", "r", "o", "f", "i", "l", "e">>, seasonStatus |-> <<"s", "e", "a", "s", "o", "n", "S", "t", "a", "t", "u", "s">>,
     playerRating |-> <<"p", "l", "a", "y", "e", "r", "R", "a", "t", "i", "n", "g">>, currency |-> <<"c", "u", "r", "r", "e", "n", "c", "y">>,
     currencyItem |-> <<"c", "u", "r", "r", "e", "n", "c", "y", "I", "t", "e", "m">>, profileCurrency |-> <<"p", "r", "o", "f", "i", "l", "e", "C", "u", "r", "r", "e", "n", "c", "y">>,
     playerCurrencies |-> <<"p", "l", "a", "y", "e", "r", "C", "u", "r", "r", "e", "n", "c", "i", "e", "s">>, resourceList |-> <<"r", "e", "s", "o", "u", "r", "c", "e", "L", "i", "s", "t">>,
     datacron |-> <<"d", "a", "t", "a", "c", "r", "o", "n">>, datacronList |-> <<"d", "a", "t", "a", "c", "r", "o", "n", "L", "i", "s", "t">>,
     skill |-> <<"s", "k", "i", "l", "l">>, skillList |-> <<"s", "k", "i", "l", "l", "L", "i", "s", "t">>,
     unitSkills |-> <<"u", "n", "i", "t", "S", "k", "i", "l", "l", "s">>, units |-> <<"u", "n", "i", "t", "s">>]

\* Object.keys(raw).forEach over the fields whose name holds 'currenc' or
\* 'resource': an array replaces currencyArray, an object becomes its one
\* entry, and the last such field wins
RECURSIVE currencyScan(_, _, _)
currencyScan(raw, keys, found) ==
    IF keys = <<>> THEN found
    ELSE LET key == ToLowerCase(FieldNameChars[Head(keys)])
             val == Field(raw, Head(keys))
             next == IF Contains(key, <<"c", "u", "r", "r", "e", "n", "c">>) \/ Contains(key, <<"r", "e", "s", "o", "u", "r", "c", "e">>)
                     THEN (IF val.t = "array" THEN val
                           ELSE IF val.t = "object" THEN Arr(<<val>>)
                           ELSE found)
                     ELSE found
         IN  currencyScan(raw, Tail(keys), next)

\* var currencyArray
currencyArrayOf(raw) ==
    LET named == Or(Field(raw, "currency"),
                    Or(Field(raw, "currencyItem"),
                       Or(Field(raw, "profileCurrency"), Arr(<<>>))))
    IN  IF named.t # "array" \/ Len(named.v) = 0
        THEN currencyScan(raw, raw.keys, named)
        ELSE named

\* the buckets in the order of the assignments, each with the ids it takes
\* whole and the fragments it takes anywhere in the upper-cased id
CurrencyBuckets ==
    << [bucket |-> "credits", ids |-> {<<"1">>}, parts |-> {<<"C", "R", "E", "D", "I", "T">>}],
       [bucket |-> "crystals", ids |-> {<<"2">>}, parts |-> {<<"C", "R", "Y", "S", "T", "A", "L">>, <<"P", "R", "E", "M", "I", "U", "M">>}],
       [bucket |-> "ally_points", ids |-> {<<"3">>}, parts |-> {<<"A", "L", "L", "Y">>}],
       [bucket |-> "cantina", ids |-> {<<"4">>}, parts |-> {<<"C", "A", "N", "T", "I", "N", "A">>}],
       [bucket |-> "squad_arena_tokens", ids |-> {<<"5">>}, parts |-> {<<"S", "Q", "U", "A", "D">>}],
       [bucket |-> "fleet_tokens", ids |-> {<<"6">>}, parts |-> {<<"F", "L", "E", "E", "T">>, <<"S", "H", "I", "P", "_", "P", "R", "E", "S", "T", "I", "G", "E">>}],
       [bucket |-> "gw_tokens", ids |-> {<<"7">>}, parts |-> {<<"G", "A", "L", "A", "C", "T", "I", "C", "_", "W", "A", "R">>, <<"G", "W">>}],
       [bucket |-> "get1", ids |-> {<<"1", "5">>, <<"G", "E", "T", "1">>}, parts |-> {<<"G", "U", "I", "L", "D", "_", "E", "V", "E", "N", "T", "_", "T", "O", "K", "E", "N", "_", "1">>}],
       [bucket |-> "get2", ids |-> {<<"1", "6">>, <<"G", "E", "T", "2">>}, parts |-> {<<"G", "U", "I", "L", "D", "_", "E", "V", "E", "N", "T", "_", "T", "O", "K", "E", "N", "_", "2">>}],
       [bucket |-> "get3", ids |-> {<<"1", "7">>, <<"G", "E", "T", "3">>}, parts |-> {<<"G", "U", "I", "L", "D", "_", "E", "V", "E", "N", "T", "_", "T", "O", "K", "E", "N", "_", "3">>}] >>

\* the buckets the currency entry c is assigned to
bucketsOf(c) ==
    LET id == ToUpperCase(JsString(Or(Field(c, "id"),
                              Or(Field(c, "currencyId"), Or(Field(c, "key"), Str(<<>>))))))
    IN  { CurrencyBuckets[i].bucket : i \in
            { j \in 1..Len(CurrencyBuckets) :
                \/ id \in CurrencyBuckets[j].ids
                \/ \E part \in CurrencyBuckets[j].parts : Contains(id, part) } }

\* var qty = parseInt(c.quantity || c.value || c.amount || 0)
quantityOf(c) ==
    ParseInt(Or(Field(c, "quantity"), Or(Field(c, "value"), Or(Field(c, "amount"), Num(0)))))

\* currencies after the entries of the array, a later entry overwriting
RECURSIVE currenciesOf(_, _)
currenciesOf(entries, currencies) ==
    IF entries = <<>> THEN currencies
    ELSE LET c == Head(entries)
             hit == bucketsOf(c)
         IN  currenciesOf(Tail(entries),
                 [b \in DOMAIN currencies \cup hit |->
                     IF b \in hit THEN quantityOf(c) ELSE currencies[b]])

currencyRaises(raw) ==
    \/ RaisesForEach(currencyArrayOf(raw))
    \/ AnyRaisesOnRead(ItemsOrNone(currencyArrayOf(raw)))

\* one entry of dcData.affix
affixOf(af) ==
    LET stat == Field(af, "stat")
        base == [id |-> Or(Field(af, "targetRule"),
                           Or(Field(af, "abilityId"), Or(Field(af, "id"), Str(<<>>)))),
                 scope |-> Or(Field(af, "scopeIcon"), Or(Field(af, "scope"), Str(<<>>))),
                 ability |-> Or(Field(af, "abilityId"), Str(<<>>))]
    IN  IF Truthy(Field(af, "statType")) \/ Truthy(stat)
        THEN Obj(base @@
                 [stat |-> Or(Field(af, "statType"),
                              Or(IF Truthy(stat) THEN Field(stat, "unitStatId") ELSE stat,
                                 Str(<<>>))),
                  value |-> ParseInt(Or(Field(af, "statValue"),
                                Or(IF Truthy(stat) THEN Field(stat, "unscaledDecimalValue")
                                   ELSE stat,
                                   Num(0))))])
        ELSE Obj(base)

\* dc.affix || dc.affixList || []
affixListOf(dc) == Or(Field(dc, "affix"), Or(Field(dc, "affixList"), Arr(<<>>)))

\* the body of datacronArray.forEach
datacronOf(dc) ==
    LET affixes == ItemsOrNone(affixListOf(dc))
    IN  Obj([id |-> Or(Field(dc, "id"), Str(<<>>)),
             setId |-> Or(Field(dc, "setId"), Or(Field(dc, "templateId"), Str(<<>>))),
             level |-> Or(Field(dc, "tier"), Or(Field(dc, "level"), Num(0))),
             locked |-> Or(Field(dc, "locked"), Bool(FALSE)),
             targetRule |-> Or(Field(dc, "targetRule"), Str(<<>>)),
             affix |-> Arr([i \in 1..Len(affixes) |-> affixOf(affixes[i])])])

\* var datacronArray = raw.datacron || raw.datacronList || []
datacronArrayOf(raw) == Or(Field(raw, "datacron"), Or(Field(raw, "datacronList"), Arr(<<>>)))

datacronRaises(raw) ==
    \/ RaisesForEach(datacronArrayOf(raw))
    \/ LET dcs == ItemsOrNone(datacronArrayOf(raw))
       IN  \/ AnyRaisesOnRead(dcs)
           \/ \E i \in 1..Len(dcs) :
                 \/ RaisesForEach(affixListOf(dcs[i]))
                 \/ AnyRaisesOnRead(ItemsOrNone(affixListOf(dcs[i])))

datacronsOf(raw) ==
    LET dcs == ItemsOrNone(datacronArrayOf(raw))
    IN  [i \in 1..Len(dcs) |-> datacronOf(dcs[i])]

\* the fields of a unitStatsMap entry, each with the keys of the stats
\* object it is read from, the first truthy one winning
StatFields ==
    [speed |-> <<"5", "Speed">>,
     health |-> <<"1", "Health">>,
     protection |-> <<"28", "27", "Protection">>,
     phys_dmg |-> <<"37", "41", "PhysicalDamage">>,
     spec_dmg |-> <<"38", "42", "SpecialDamage">>,
     armor |-> <<"8", "Armor">>,
     resistance |-> <<"9", "Resistance">>,
     crit_chance |-> <<"53", "CriticalChance">>,
     crit_dmg |-> <<"16", "CriticalDamage">>,
     potency |-> <<"17", "Potency">>,
     tenacity |-> <<"18", "Tenacity">>,
     mastery |-> <<"Mastery", "mastery">>]

\* s[k1] || s[k2] || ... || 0
RECURSIVE firstTruthyField(_, _)
firstTruthyField(s, keys) ==
    IF keys = <<>> THEN Num(0)
    ELSE Or(Field(s, Head(keys)), firstTruthyField(s, Tail(keys)))

\* the body of statsArr.forEach, with the map so far: an entry without id
\* is skipped, and an id that is no string raises, which ends the loop with
\* what was stored before it
RECURSIVE statsEntries(_, _)
statsEntries(entries, map) ==
    IF entries = <<>> THEN map
    ELSE LET entry == Head(entries)
             bid == baseIdOf(Or(Field(entry, "defId"),
                         Or(Field(entry, "baseId"),
                            Or(Field(entry, "definitionId"), Str(<<>>)))))
             s == Or(Field(entry, "stats"),
                     Or(Field(entry, "stat"), Or(Field(entry, "finalStats"), Obj(NoFields))))
         IN  IF RaisesOnRead(entry) \/ bid.t = "throw" THEN map
             ELSE IF ~Truthy(bid) THEN statsEntries(Tail(entries), map)
             ELSE statsEntries(Tail(entries),
                     [k \in DOMAIN map \cup {bid.v} |->
                         IF k = bid.v
                         THEN Obj([f \in DOMAIN StatFields |-> firstTruthyField(s, StatFields[f])])
                         ELSE map[k]])

\* unitStatsMap from the settled playerCharacterStats call: empty unless the
\* call was fulfilled with a 2xx answer whose body parses
unitStatsMapOf(stats) ==
    LET statsArr ==
            IF stats.t = "array" THEN stats
            ELSE Or(Field(stats, "roster"),
                    Or(Field(stats, "units"), Or(Field(stats, "data"), Arr(<<>>))))
        entries == ItemsOrNone(statsArr)
    IN  IF stats.t \in {"rejected", "httpError", "throw", "null"} THEN EmptyMap
        ELSE IF Len(entries) > 0 /\ RaisesOnRead(entries[1]) THEN EmptyMap
        ELSE statsEntries(entries, EmptyMap)

\* the units of the roster, each normalised in payload order
parsedUnits(raw, unitStatsMap) ==
    LET rosterUnits == ItemsOrNone(Field(raw, "rosterUnit"))
    IN  [i \in 1..Len(rosterUnits) |-> normalizeUnit(rosterUnits[i], unitStatsMap)]

RECURSIVE SelectShips(_, _)

\* the same items, the latest first
SelectShipsLatestFirst(units, wanted) ==
    LET selected == SelectSeq(units, LAMBDA u : (u.f.combat_type = Num(2)) = wanted)
    IN  [i \in 1..Len(selected) |-> selected[Len(selected) + 1 - i]]

\* the subsequence of the items whose combat type is, or is not, 2
SelectShips(units, wanted) ==
    IF units = <<>> THEN <<>>
    ELSE (IF (Head(units).f.combat_type = Num(2)) = wanted THEN <<Head(units)>> ELSE <<>>)
         \o SelectShips(Tail(units), wanted)

\* the statements between the fetch and res.json that raise
normalizeRaises(raw, unitStatsMap) ==
    \/ RaisesOnRead(raw)
    \/ RaisesForEach(Field(raw, "rosterUnit"))
    \/ gpRaises(raw)
    \/ LET units == parsedUnits(raw, unitStatsMap)
       IN  \E i \in 1..Len(units) : units[i].t = "throw"
    \/ arenaRaises(raw)
    \/ currencyRaises(raw)
    \/ datacronRaises(raw)

\* var response = {...}, as sent by res.json(response)
responseOf(raw, code, unitStatsMap) ==
    LET gp == gpOf(raw)
        units == parsedUnits(raw, unitStatsMap)
        ranks == ranksOf(ItemsOrNone(Field(raw, "pvpProfile")), [arena |-> Null, fleet |-> Null])
    IN  Obj([name |-> Or(Field(raw, "name"), Str(Unknown)),
             ally_code |-> Or(Field(raw, "allyCode"), code),
             galactic_power |-> gp.total,
             character_galactic_power |-> gp.char,
             ship_galactic_power |-> gp.ship,
             guild_name |-> Or(Field(raw, "guildName"), Str(<<>>)),
             arena |-> Obj([rank |-> ranks.arena]),
             fleet_arena |-> Obj([rank |-> ranks.fleet]),
             grand_arena |-> grandArenaOf(raw),
             level |-> Or(Field(raw, "level"), Num(85)),
             characters |-> Arr(SelectShips(units, FALSE)),
             ships |-> Arr(SelectShips(units, TRUE)),
             currencies |-> Obj(currenciesOf(ItemsOrNone(currencyArrayOf(raw)), NoFields)),
             datacrons |-> Arr(datacronsOf(raw))])

\* the text of an exception mentions the part: of the exceptions the handler
\* can catch only the TimeoutError of an aborted body read names 'timeout'
MessageMentions(err, part) == err.name = "TimeoutError" /\ part = "timeout"

\* the catch of the player handler: 504 for a timeout, 502 for a refused or
\* failed connection, else 500 with the text of the exception
playerCatch(err) ==
    IF err.name = "TimeoutError" \/ MessageMentions(err, "timeout")
    THEN [status |-> 504, error |-> "Comlink request timed out. Try again."]
    ELSE IF MessageMentions(err, "ECONNREFUSED") \/ MessageMentions(err, "fetch failed")
    THEN [status |-> 502,
          error |-> "Cannot reach comlink service. Is it running? Check COMLINK_URL env var."]
    ELSE [status |-> 500, error |-> "Failed to fetch player data: ", err |-> err]

\* the answer when the player call was rejected or not ok
playerUnavailable(playerRes) ==
    LET status == IF playerRes.t = "httpError" THEN playerRes.status ELSE 0
    IN  IF status = 400 THEN [status |-> 404, error |-> "Ally code not found."]
        ELSE [status |-> 502,
              error |-> "Comlink error (" \o ToString(status) \o "). Is comlink running?"]

\* the handler from the settled calls to its response
playerResponse(playerRes, code, statsRes) ==
    LET unitStatsMap == unitStatsMapOf(statsRes)
    IN  IF playerRes.t \in {"rejected", "httpError"} THEN playerUnavailable(playerRes)
        ELSE IF playerRes.t = "throw" THEN playerCatch(playerRes)
        ELSE IF normalizeRaises(playerRes, unitStatsMap) THEN playerCatch(Thrown("TypeError"))
        ELSE [status |-> 200, body |-> responseOf(playerRes, code, unitStatsMap)]

-----------------------------------------------------------------------------
(* The name table loader: loadUnitNames *)

StartsWith(s, pre) == Len(s) >= Len(pre) /\ SubSeq(s, 1, Len(pre)) = pre
EndsWith(s, suf) == Len(s) >= Len(suf) /\ SubSeq(s, Len(s) - Len(suf) + 1, Len(s)) = suf

\* the number of decimal digits s ends with
RECURSIVE TrailingDigits(_)
TrailingDigits(s) ==
    IF s = <<>> \/ ~IsDigit(s[Len(s)]) THEN 0
    ELSE 1 + TrailingDigits(SubSeq(s, 1, Len(s) - 1))

\* the length of the match of /_NAME(?:_V\d+)?$/ in key, 0 when there is none
NameSuffixLen(key) ==
    LET d == TrailingDigits(key)
    IN  IF EndsWith(key, <<"_", "N", "A", "M", "E">>) THEN 5
        ELSE IF d > 0 /\ EndsWith(SubSeq(key, 1, Len(key) - d), <<"_", "N", "A", "M", "E", "_", "V">>) THEN 7 + d
        ELSE 0

\* s.replace(/^UNIT_/, '')
StripUnitPrefix(s) == IF StartsWith(s, <<"U", "N", "I", "T", "_">>) THEN SubSeq(s, 6, Len(s)) ELSE s

\* match[1] of /^UNIT_(.+?)_NAME(?:_V\d+)?$/, else of /^(.+?)_NAME(?:_V\d+)?$/,
\* as a one-element sequence; the empty sequence when neither matches
strictMatch(key) ==
    LET suf == NameSuffixLen(key)
    IN  IF suf = 0 THEN <<>>
        ELSE IF StartsWith(key, <<"U", "N", "I", "T", "_">>) /\ Len(key) - suf - 5 >= 1
        THEN <<SubSeq(key, 6, Len(key) - suf)>>
        ELSE IF Len(key) - suf >= 1 THEN <<SubSeq(key, 1, Len(key) - suf)>>
        ELSE <<>>

\* the base id the first loop stores the entry under, as a one-element
\* sequence; empty when the entry is skipped
strictBaseId(key, val) ==
    IF val.t = "string" /\ strictMatch(key) # <<>> /\ Contains(key, <<"U", "N", "I", "T">>)
    THEN <<StripUnitPrefix(strictMatch(key)[1])>>
    ELSE <<>>

\* the base id the broader loop stores the entry under, likewise
looseBaseId(key, val) ==
    LET basePart == SubSeq(key, 1, Len(key) - NameSuffixLen(key))
    IN  IF /\ val.t = "string"
           /\ Contains(key, <<"_", "N", "A", "M", "E">>)
           /\ Len(val.v) <= 50 /\ Len(val.v) >= 2
           /\ basePart # <<>> /\ basePart # key
        THEN <<basePart>>
        ELSE <<>>

\* Object.keys(x) of a parsed JSON object, in document order
KeysOf(x) == IF x.t = "object" THEN x.keys ELSE <<>>
\* x[key] for a key of Object.keys(x)
Own(x, key) == IF x.t = "object" /\ key \in DOMAIN x.f THEN x.f[key] ELSE Undefined

\* s.indexOf(c), counted from 0; -1 when c is not in s
RECURSIVE IndexOf(_, _)
IndexOf(s, c) ==
    IF s = <<>> THEN -1
    ELSE IF Head(s) = c THEN 0
    ELSE LET rest == IndexOf(Tail(s), c) IN IF rest < 0 THEN -1 ELSE rest + 1

RECURSIVE TrimRight(_)
TrimRight(s) ==
    IF s # <<>> /\ s[Len(s)] \in {" ", "\t", "\r", "\n"}
    THEN TrimRight(SubSeq(s, 1, Len(s) - 1)) ELSE s
Trim(s) == TrimRight(TrimLeft(s))

\* text.split('\n')
RECURSIVE SplitLines(_)
SplitLines(text) ==
    LET nl == IndexOf(text, "\n")
    IN  IF nl < 0 THEN <<text>>
        ELSE <<SubSeq(text, 1, nl)>> \o SplitLines(SubSeq(text, nl + 2, Len(text)))

\* the key and value a line of the text blob gives, as a one-element
\* sequence of a pair; empty when the line gives none
blobLine(line) ==
    LET pipeIdx == IndexOf(line, "|")
        eqIdx == IndexOf(line, "=")
        at == IF pipeIdx > 0 THEN pipeIdx ELSE IF pipeIdx < 0 /\ eqIdx > 0 THEN eqIdx ELSE -1
        k == Trim(SubSeq(line, 1, at))
        v == Trim(SubSeq(line, at + 2, Len(line)))
    IN  IF at > 0 /\ k # <<>> /\ v # <<>> THEN << <<k, Str(v)>> >> ELSE <<>>

\* var parsed = {} after the lines of the blob: a later line with the same
\* key replaces the value and keeps the place of the key
RECURSIVE blobEntries(_, _)
blobEntries(lines, parsed) ==
    IF lines = <<>> THEN parsed
    ELSE LET kv == blobLine(Head(lines))
         IN  blobEntries(Tail(lines),
                 IF kv = <<>> THEN parsed
                 ELSE [t |-> "object",
                       f |-> [k \in DOMAIN parsed.f \cup {kv[1][1]} |->
                                 IF k = kv[1][1] THEN kv[1][2] ELSE parsed.f[k]],
                       keys |-> IF kv[1][1] \in DOMAIN parsed.f THEN parsed.keys
                                ELSE Append(parsed.keys, kv[1][1])])

EmptyObject == [t |-> "object", f |-> EmptyMap, keys |-> <<>>]

\* locEntries: the bundle, its ENG_US or data member, unwrapped once when it
\* has at most 3 keys and the first holds an object, parsed when the first
\* value is a text blob of more than 1000 characters with over 100 entries
locEntriesOf(locData) ==
    LET byLang == IF Truthy(Own(locData, <<"E", "N", "G", "_", "U", "S">>)) THEN Own(locData, <<"E", "N", "G", "_", "U", "S">>) ELSE locData
        byData == IF Truthy(Own(locData, <<"d", "a", "t", "a">>)) THEN Own(locData, <<"d", "a", "t", "a">>) ELSE byLang
        topKeys == KeysOf(byData)
        first == IF topKeys = <<>> THEN Undefined ELSE Own(byData, topKeys[1])
        unwrapped == IF Len(topKeys) <= 3 /\ first.t \in {"object", "array"}
                     THEN first ELSE byData
        firstVal == IF KeysOf(unwrapped) = <<>> THEN Undefined
                    ELSE Own(unwrapped, KeysOf(unwrapped)[1])
        parsed == blobEntries(SplitLines(firstVal.v), EmptyObject)
    IN  IF firstVal.t = "string" /\ Len(firstVal.v) > 1000 /\ Len(parsed.keys) > 100
        THEN parsed ELSE unwrapped

\* allKeys.forEach of the first loop: the table after the keys, each
\* matching entry written into it under its base id
RECURSIVE strictPass(_, _, _)
strictPass(locEntries, keys, map) ==
    IF keys = <<>> THEN map
    ELSE LET id == strictBaseId(Head(keys), Own(locEntries, Head(keys)))
         IN  strictPass(locEntries, Tail(keys),
                 IF id = <<>> THEN map
                 ELSE [k \in DOMAIN map \cup {id[1]} |->
                          IF k = id[1] THEN Own(locEntries, Head(keys)) ELSE map[k]])

\* count after the first loop
strictCount(locEntries) ==
    Cardinality({i \in 1..Len(KeysOf(locEntries)) :
        strictBaseId(KeysOf(locEntries)[i], Own(locEntries, KeysOf(locEntries)[i])) # <<>>})

\* allKeys.forEach of the broader search
RECURSIVE loosePass(_, _, _)
loosePass(locEntries, keys, map) ==
    IF keys = <<>> THEN map
    ELSE LET id == looseBaseId(Head(keys), Own(locEntries, Head(keys)))
         IN  loosePass(locEntries, Tail(keys),
                 IF id = <<>> THEN map
                 ELSE [k \in DOMAIN map \cup {id[1]} |->
                          IF k = id[1] THEN Own(locEntries, Head(keys)) ELSE map[k]])

\* a table that is emptied before the entries of the bundle are written
namesRebuilt(locData, map) ==
    LET locEntries == locEntriesOf(locData)
    IN  IF strictCount(locEntries) = 0
        THEN loosePass(locEntries, KeysOf(locEntries), EmptyMap)
        ELSE strictPass(locEntries, KeysOf(locEntries), EmptyMap)

\* a build whose broader search runs whatever the first loop stored
namesBuiltBoth(locData, map) ==
    LET locEntries == locEntriesOf(locData)
    IN  loosePass(locEntries, KeysOf(locEntries),
                  strictPass(locEntries, KeysOf(locEntries), map))

\* unitNameMap after step 3 on the fetched bundle: the entries are written
\* into the table that is there, the broader search runs when the first
\* loop stored nothing
namesBuilt(locData, map) ==
    LET locEntries == locEntriesOf(locData)
    IN  IF strictCount(locEntries) = 0
        THEN loosePass(locEntries, KeysOf(locEntries), map)
        ELSE strictPass(locEntries, KeysOf(locEntries), map)

\* a settled fetch and body read did not give a parsed body
NoBody(res) == res.t \in {"rejected", "httpError", "throw"}

\* the try block of loadUnitNames raises before step 3 writes anything: a
\* call that failed, a body that is no JSON or null, a missing version
loadUnitNamesFails(metaRes, locRes) ==
    \/ NoBody(metaRes)
    \/ RaisesOnRead(metaRes)
    \/ ~Truthy(Field(metaRes, "latestLocalizationBundleVersion"))
    \/ NoBody(locRes)
    \/ RaisesOnRead(locRes)

\* a catch that drops the table and the flag
loadUnitNamesReset(metaRes, locRes, map, ready) ==
    IF loadUnitNamesFails(metaRes, locRes) THEN [map |-> EmptyMap, ready |-> FALSE]
    ELSE [map |-> namesBuilt(locRes, map), ready |-> TRUE]

\* unitNameMap and nameMapReady after one run of loadUnitNames
loadUnitNames(metaRes, locRes, map, ready) ==
    IF loadUnitNamesFails(metaRes, locRes) THEN [map |-> map, ready |-> ready]
    ELSE [map |-> namesBuilt(locRes, map), ready |-> TRUE]

-----------------------------------------------------------------------------
(* The skill definition loader: loadSkillData *)

\* x.length === 0
LengthIsZero(x) == x.t = "array" /\ Len(x.v) = 0

\* topKeys.filter: the keys whose lower-cased name holds 'skill'
RECURSIVE skillLikeKeys(_)
skillLikeKeys(keys) ==
    IF keys = <<>> THEN <<>>
    ELSE (IF Contains(ToLowerCase(FieldNameChars[Head(keys)]), <<"s", "k", "i", "l", "l">>)
          THEN <<Head(keys)>> ELSE <<>>) \o skillLikeKeys(Tail(keys))

\* var skills after step 3
skillsOf(gameData) ==
    LET named == Or(Field(gameData, "skill"), Or(Field(gameData, "skillList"), Arr(<<>>)))
        possibleKeys == skillLikeKeys(KeysOf(gameData))
    IN  IF LengthIsZero(named) /\ Len(possibleKeys) > 0
        THEN Or(Field(gameData, possibleKeys[1]), Arr(<<>>))
        ELSE named

\* skill.tierList || skill.tier || []
tiersOf(skill) == Or(Field(skill, "tierList"), Or(Field(skill, "tier"), Arr(<<>>)))

\* a scan that keeps the first tier that carries the flag
RECURSIVE firstFlaggedTier(_, _)
firstFlaggedTier(tiers, flag) ==
    IF tiers = <<>> THEN 0
    ELSE IF Field(Head(tiers), flag) = Bool(TRUE) THEN 2
    ELSE LET rest == firstFlaggedTier(Tail(tiers), flag)
         IN  IF rest = 0 THEN 0 ELSE rest + 1

\* tiers.forEach: tierNum = idx + 2 of the last tier that carries the flag,
\* 0 when none does
RECURSIVE flaggedTier(_, _)
flaggedTier(tiers, flag) ==
    IF tiers = <<>> THEN 0
    ELSE IF Field(tiers[Len(tiers)], flag) = Bool(TRUE) THEN Len(tiers) + 1
    ELSE flaggedTier(SubSeq(tiers, 1, Len(tiers) - 1), flag)

\* the record stored under the id of the skill
skillEntry(skill) ==
    LET tiers == ItemsOrNone(tiersOf(skill))
        omicronTier == flaggedTier(tiers, "isOmicronTier")
    IN  Obj([isZeta |-> Or(Field(skill, "isZeta"), Bool(FALSE)),
             maxTier |-> Num(Len(tiers) + 1),
             zetaTier |-> Num(flaggedTier(tiers, "isZetaTier")),
             omicronTier |-> Num(omicronTier),
             omicronMode |-> IF omicronTier > 0 THEN Or(Field(skill, "omicronMode"), Num(0))
                             ELSE Num(0)])

\* the body of skills.forEach raises: a skill that is null, a tier list that
\* is no array, a tier that is null
skillRaises(skill) ==
    \/ RaisesOnRead(skill)
    \/ tiersOf(skill).t # "array"
    \/ AnyRaisesOnRead(ItemsOrNone(tiersOf(skill)))

\* skills.forEach with the map so far: a skill without id is skipped, a
\* skill that raises ends the loop with the entries written before it
RECURSIVE skillsPass(_, _)
skillsPass(skills, map) ==
    IF skills = <<>> THEN [map |-> map, raised |-> FALSE]
    ELSE LET skill == Head(skills)
             skillId == Or(Field(skill, "id"), Str(<<>>))
         IN  IF skillRaises(skill) /\ (RaisesOnRead(skill) \/ Truthy(skillId))
             THEN [map |-> map, raised |-> TRUE]
             ELSE IF ~Truthy(skillId) THEN skillsPass(Tail(skills), map)
             ELSE skillsPass(Tail(skills),
                     [k \in DOMAIN map \cup {JsString(skillId)} |->
                         IF k = JsString(skillId) THEN skillEntry(skill) ELSE map[k]])

\* the try block of loadSkillData raises before step 4 writes anything
loadSkillDataFails(metaRes, dataRes) ==
    \/ NoBody(metaRes)
    \/ RaisesOnRead(metaRes)
    \/ ~Truthy(Field(metaRes, "latestGamedataVersion"))
    \/ NoBody(dataRes)
    \/ RaisesOnRead(dataRes)
    \/ LengthIsZero(skillsOf(dataRes))
    \/ skillsOf(dataRes).t # "array"

\* a build into a map of its own, put in place of the old one when complete
loadSkillDataSwapped(metaRes, dataRes, map, ready) ==
    LET built == skillsPass(ItemsOrNone(skillsOf(dataRes)), EmptyMap)
    IN  IF loadSkillDataFails(metaRes, dataRes) \/ built.raised
        THEN [map |-> map, ready |-> ready]
        ELSE [map |-> built.map, ready |-> TRUE]

\* skillDataMap and skillDataReady after one run of loadSkillData
loadSkillData(metaRes, dataRes, map, ready) ==
    LET built == skillsPass(ItemsOrNone(skillsOf(dataRes)), map)
    IN  IF loadSkillDataFails(metaRes, dataRes) THEN [map |-> map, ready |-> ready]
        ELSE [map |-> built.map, ready |-> ready \/ ~built.raised]

\* the run of loadSkillData ends in its catch
loadSkillDataRaises(metaRes, dataRes) ==
    \/ loadSkillDataFails(metaRes, dataRes)
    \/ skillsPass(ItemsOrNone(skillsOf(dataRes)), EmptyMap).raised

-----------------------------------------------------------------------------
(* The chat endpoint: validation, then the reply streamed as server-sent   *)
(* events                                                                   *)

RATE_LIMIT_MAX == 20

RATE_LIMIT_WINDOW == 60000

\* while (timestamps.length && timestamps[0] < now - RATE_LIMIT_WINDOW) timestamps.shift()
RECURSIVE shiftOld(_, _)
shiftOld(timestamps, now) ==
    IF timestamps # <<>> /\ Head(timestamps) < now - RATE_LIMIT_WINDOW
    THEN shiftOld(Tail(timestamps), now)
    ELSE timestamps

\* a limiter that turns down a caller only above the maximum
checkRateLimitAbove(map, ip, now) ==
    LET timestamps == shiftOld(IF ip \in DOMAIN map THEN map[ip] ELSE <<>>, now)
        allowed == ~(Len(timestamps) > RATE_LIMIT_MAX)
    IN  [map |-> (ip :> (IF allowed THEN Append(timestamps, now) ELSE timestamps)) @@ map,
         allowed |-> allowed]

\* checkRateLimit(ip) at the time now: the map it leaves and what it returns
checkRateLimit(map, ip, now) ==
    LET timestamps == shiftOld(IF ip \in DOMAIN map THEN map[ip] ELSE <<>>, now)
        allowed == ~(Len(timestamps) >= RATE_LIMIT_MAX)
    IN  [map |-> (ip :> (IF allowed THEN Append(timestamps, now) ELSE timestamps)) @@ map,
         allowed |-> allowed]

\* the body of the cleanup timer at the time now
rateLimitCleanup(map, now) ==
    LET left == {ip \in DOMAIN map : shiftOld(map[ip], now) # <<>>}
    IN  [ip \in left |-> shiftOld(map[ip], now)]

\* the response object of a request: nothing sent yet
NoResponse ==
    [headersSent |-> FALSE, sse |-> FALSE, status |-> 0, error |-> "", events |-> <<>>, ended |-> FALSE]

\* res.status(status).json({ error: error })
JsonError(res, status, error) ==
    [res EXCEPT !.headersSent = TRUE, !.status = status, !.error = error, !.ended = TRUE]

\* res.write('data: ' + JSON.stringify(event) + '\n\n')
Written(res, event) == [res EXCEPT !.events = Append(@, event)]

\* !message || typeof message !== "string" || message.trim().length === 0
messageInvalid(message) ==
    ~Truthy(message) \/ message.t # "string" \/ Trim(message.v) = <<>>

\* code.replace(/[^0-9]/g, "")
RECURSIVE DigitsOf(_)
DigitsOf(s) ==
    IF s = <<>> THEN <<>>
    ELSE (IF IsDigit(Head(s)) THEN <<Head(s)>> ELSE <<>>) \o DigitsOf(Tail(s))

validateAllyCode(code) == code.t = "string" /\ Len(DigitsOf(code.v)) = 9

\* recent.forEach raises: an entry of the history that is null
historyRaises(history) == history.t = "array" /\ AnyRaisesOnRead(history.v)

\* the handler up to res.flushHeaders(): the answer of a request that is
\* turned down, or the opened event stream
chatOpened(req, res) ==
    IF req.recent >= RATE_LIMIT_MAX THEN JsonError(res, 429, "Too many requests. Please wait.")
    ELSE IF messageInvalid(req.message) THEN JsonError(res, 400, "Invalid message")
    ELSE IF Truthy(req.allyCode) /\ ~validateAllyCode(req.allyCode)
    THEN JsonError(res, 400, "Invalid ally code")
    ELSE IF historyRaises(req.history) THEN JsonError(res, 500, "Internal server error")
    ELSE [res EXCEPT !.headersSent = TRUE, !.sse = TRUE, !.status = 200]

\* a player handler that takes every code
playerAdmittedUnchecked(req, res) ==
    IF req.recent >= RATE_LIMIT_MAX THEN JsonError(res, 429, "Too many requests. Please wait.")
    ELSE res

\* the player handler up to the calls to comlink: the answer of a request
\* that is turned down, else nothing sent yet
playerAdmitted(req, res) ==
    IF req.recent >= RATE_LIMIT_MAX THEN JsonError(res, 429, "Too many requests. Please wait.")
    ELSE IF ~validateAllyCode(Str(DigitsOf(req.code.v)))
    THEN JsonError(res, 400, "Invalid ally code format.")
    ELSE res

\* the body of the for await loop for one event of the model's stream
chatForwarded(event, res) ==
    IF event = "text_delta" THEN Written(res, [type |-> "delta"])
    ELSE IF event = "tool_use" THEN Written(res, [type |-> "searching"])
    ELSE res

\* res.write(done); res.end()
chatDone(res) == [Written(res, [type |-> "done"]) EXCEPT !.ended = TRUE]

\* a catch that closes an opened stream without a word
chatCatchSilent(err, res) ==
    IF ~res.headersSent THEN JsonError(res, 500, "Internal server error")
    ELSE [res EXCEPT !.ended = TRUE]

\* the catch of the chat handler
chatCatch(err, res) ==
    IF ~res.headersSent
    THEN (IF err.status = 429 THEN JsonError(res, 429, "AI rate limit reached. Please wait a moment.")
          ELSE IF err.status = 401
          THEN JsonError(res, 500, "Invalid API key. Check ANTHROPIC_API_KEY.")
          ELSE JsonError(res, 500, "Internal server error"))
    ELSE [Written(res, [type |-> "error",
                        message |-> IF err.message # "" THEN err.message
                                    ELSE "Internal server error"])
            EXCEPT !.ended = TRUE]

\* str.substring(0, maxLen || 5000), "" for what is not a string
sanitizeString(str, maxLen) ==
    IF str.t # "string" THEN <<>>
    ELSE LET n == IF maxLen = 0 THEN 5000 ELSE maxLen
         IN  IF Len(str.v) <= n THEN str.v ELSE SubSeq(str.v, 1, n)

\* "<<<USER_INPUT>>>\n" + text + "\n<<<END_USER_INPUT>>>"
UserInput(text) ==
    <<"<", "<", "<", "U", "S", "E", "R", "_", "I", "N", "P", "U", "T", ">", ">", ">">> \o <<"\n">> \o text \o <<"\n">> \o <<"<", "<", "<", "E", "N", "D", "_", "U", "S", "E", "R", "_", "I", "N", "P", "U", "T", ">", ">", ">">>

\* the persona text, of which the model keeps the first words
SYSTEM_PROMPT == <<"Y", "o", "u", " ", "a", "r", "e">>

\* "\n\n=== PLAYER ROSTER DATA ===\n" and "\n=== END ROSTER DATA ==="
RosterOpen == <<"\n", "\n">> \o <<"=", "=", "=", " ", "P", "L", "A", "Y", "E", "R", " ", "R", "O", "S", "T", "E", "R", " ", "D", "A", "T", "A", " ", "=", "=", "=">> \o <<"\n">>
RosterClose == <<"\n">> \o <<"=", "=", "=", " ", "E", "N", "D", " ", "R", "O", "S", "T", "E", "R", " ", "D", "A", "T", "A", " ", "=", "=", "=">>

\* the system prompt: the persona, then the roster summary between its marks
systemPromptOf(req) ==
    LET rosterSummary == sanitizeString(Or(req.roster_summary, Str(<<>>)), 80000)
    IN  IF rosterSummary # <<>>
        THEN SYSTEM_PROMPT \o RosterOpen \o rosterSummary \o RosterClose
        ELSE SYSTEM_PROMPT

\* a slice that keeps the first sixteen entries
firstSixteen(history) == SubSeq(history, 1, IF Len(history) < 16 THEN Len(history) ELSE 16)

\* history.slice(-16)
lastSixteen(history) ==
    SubSeq(history, IF Len(history) > 16 THEN Len(history) - 15 ELSE 1, Len(history))

\* the turns pushed by recent.forEach: one for each entry of role user or
\* assistant
RECURSIVE turnsOf(_)
turnsOf(recent) ==
    IF recent = <<>> THEN <<>>
    ELSE LET h == Head(recent)
             role == Field(h, "role")
         IN  (IF role = Str(<<"u", "s", "e", "r">>)
              THEN << [role |-> "user",
                       content |-> Str(UserInput(sanitizeString(Field(h, "content"), 1000)))] >>
              ELSE IF role = Str(<<"a", "s", "s", "i", "s", "t", "a", "n", "t">>)
              THEN << [role |-> "assistant",
                       content |-> Str(sanitizeString(Field(h, "content"), 2000))] >>
              ELSE <<>>)
             \o turnsOf(Tail(recent))

ImageTypes == {<<"i", "m", "a", "g", "e", "/", "p", "n", "g">>, <<"i", "m", "a", "g", "e", "/", "j", "p", "e", "g">>, <<"i", "m", "a", "g", "e", "/", "g", "i", "f">>, <<"i", "m", "a", "g", "e", "/", "w", "e", "b", "p">>}

\* the user turn pushed last, with the image in front of the text if one
\* was sent
userTurn(req) ==
    LET message == sanitizeString(req.message, 2000)
        imageData == req.image
    IN  IF Truthy(imageData) /\ Truthy(Field(imageData, "base64"))
        THEN LET given == Or(Field(imageData, "mime_type"), Str(<<"i", "m", "a", "g", "e", "/", "p", "n", "g">>))
                 mimeType == IF given.t = "string" /\ given.v \in ImageTypes
                             THEN given ELSE Str(<<"i", "m", "a", "g", "e", "/", "p", "n", "g">>)
             IN  [role |-> "user",
                  content |-> Arr(<< Obj([type |-> Str(<<"i", "m", "a", "g", "e">>),
                                          source |-> Obj([type |-> Str(<<"b", "a", "s", "e", "6", "4">>),
                                                          media_type |-> mimeType,
                                                          data |-> Field(imageData, "base64")])]),
                                     Obj([type |-> Str(<<"t", "e", "x", "t">>),
                                          text |-> Str(UserInput(message))]) >>)]
        ELSE [role |-> "user", content |-> Str(UserInput(message))]

\* the messages array given to anthropic.messages.stream
messagesOf(req) ==
    (IF req.history.t = "array" THEN turnsOf(lastSixteen(req.history.v)) ELSE <<>>)
    \o << userTurn(req) >>

\* the system and messages arguments of anthropic.messages.stream
streamCall(req) == [system |-> systemPromptOf(req), messages |-> messagesOf(req)]

-----------------------------------------------------------------------------
(* The state after construction: both caches empty, nothing in progress *)

CachesInit ==
    /\ unitNameMap = EmptyMap
    /\ nameMapReady = FALSE
    /\ skillDataMap = EmptyMap
    /\ skillDataReady = FALSE

-----------------------------------------------------------------------------
(* The stat decoder on its own: every stat id and raw magnitude of the      *)
(* bounded input sets is decoded once.                                      *)

MaxRaw == 3
MaxRawHalves == 6

\* raw magnitudes: the small ones, and those around each multiple of 5000,
\* where Math.round(v / 10000) changes or is about to
RawNums ==
    (0..MaxRaw)
    \cup UNION {{k * 5000 - 1, k * 5000, k * 5000 + 1} : k \in 1..MaxRawHalves}
    \cup {250000, 255000, 1385000}

RawStrings ==
    { <<>>, <<"a">>, <<"a", "b", "c">>, <<"1", "2">>, <<"1", "2", "a">>,
      <<" ", "7">>, <<"-", "5">>, <<"2", "5", "0", "0", "0", "0">>,
      <<"1", "3", "8", "5", "0", "0", "0">> }

RawVals == {Undefined, Null} \cup {Num(n) : n \in RawNums} \cup {Str(s) : s \in RawStrings}

StatIdStrings ==
    DOMAIN PERCENT_STAT_IDS
    \cup { <<>>, <<"1">>, <<"5">>, <<"2", "8">>, <<"4", "1">>, <<"9", "9">>,
           <<"1", "6", "0">>, <<"x">> }
    \cup ObjectPrototypeKeys

StatIds == {Str(s) : s \in StatIdStrings} \cup {Num(5), Num(16), Num(53)}

DecodeInit ==
    /\ CachesInit
    /\ pc = "decode"
    /\ arg \in [statId : StatIds, rawVal : RawVals]
    /\ ret = Undefined

DecodeCall ==
    /\ pc = "decode"
    /\ ret' = decodeStatValue(arg.statId, arg.rawVal)
    /\ pc' = "decoded"
    /\ UNCHANGED <<cacheVars, arg>>

DecodeNext == DecodeCall

SpecDecode == DecodeInit /\ [][DecodeNext]_vars

\* the closed set of percentage stat ids, as numbers
PercentIdNumbers == {16, 17, 18, 48, 49, 52, 53, 54, 55, 56}
StatIdIsPercent(id) == JsString(id) \in {IntToString(k) : k \in PercentIdNumbers}
RawIsNatural(raw) == raw.t = "number" /\ raw.v >= 0

DecodeFlatRounds ==
    (pc = "decoded" /\ ~StatIdIsPercent(arg.statId) /\ RawIsNatural(arg.rawVal))
    => /\ ret.t = "number"
       /\ \E k \in 0..(arg.rawVal.v \div 10000 + 1) :
             /\ ret.e4 = k * 10000
             /\ 2 * arg.rawVal.v >= 20000 * k - 10000
             /\ 2 * arg.rawVal.v < 20000 * k + 10000
       /\ (arg.rawVal.v = 250000 => ret.e4 = 25 * 10000)

\* what does hold of the flat branch: the same statement for the stat ids
\* that are not names inherited from Object.prototype
DecodeFlatRoundsOwnIds ==
    (pc = "decoded" /\ JsString(arg.statId) \notin ObjectPrototypeKeys)
    => DecodeFlatRounds

\* a string without any digit does not parse as a number
RawIsUnparseable(raw) ==
    /\ raw.t = "string"
    /\ raw.v # <<>>
    /\ \A i \in 1..Len(raw.v) : ~IsDigit(raw.v[i])

\* C5: decode returns a finite number for every stat id and every raw
\* magnitude value, and 0 for a raw magnitude that does not parse.
DecodeTotal ==
    pc = "decoded"
    => /\ ret.t = "number"
       /\ (RawIsUnparseable(arg.rawVal) => ret.e4 = 0)

\* what does hold: decode never raises, and an absent, null, empty or zero
\* raw magnitude decodes to 0
DecodeAbsentIsZero ==
    pc = "decoded"
    => /\ ret.t \in {"number", "nan"}
       /\ (~Truthy(arg.rawVal) => ret = Dec4(0))

-----------------------------------------------------------------------------
(* The name resolver on its own: every definition id of the bounded input   *)
(* set is resolved once, against each of the sample name tables a refresh   *)
(* can leave in the cache.                                                   *)

MaxIdLen == 3

SOME_UNIT_ID == <<"S", "O", "M", "E", "_", "U", "N", "I", "T", "_", "I", "D">>
SEVEN_STAR == <<"S", "E", "V", "E", "N", "_", "S", "T", "A", "R">>
DARTHREVAN == <<"D", "A", "R", "T", "H", "R", "E", "V", "A", "N">>
DarthRevan == <<"D", "a", "r", "t", "h", " ", "R", "e", "v", "a", "n">>
Constructor == <<"c", "o", "n", "s", "t", "r", "u", "c", "t", "o", "r">>

DefinitionIdStrings ==
    SeqUpTo({"A", "b", "_", ":"}, MaxIdLen)
    \cup { SOME_UNIT_ID \o <<":">> \o SEVEN_STAR, SOME_UNIT_ID,
           DARTHREVAN \o <<":">> \o SEVEN_STAR,
           Constructor \o <<":">> \o SEVEN_STAR }

\* a definition id as the payload can carry it: absent, null, a string, or a
\* number where a string was expected
DefinitionIds == {Undefined, Null, Num(0), Num(12345)} \cup {Str(s) : s \in DefinitionIdStrings}

\* the name table with the entries of the set pairs of <<base id, name>>
NameTable(pairs) ==
    [k \in {p[1] : p \in pairs} |-> Str((CHOOSE p \in pairs : p[1] = k)[2])]

NameTables ==
    { EmptyMap,
      NameTable({<<DARTHREVAN, DarthRevan>>}),
      NameTable({<<DARTHREVAN, DarthRevan>>, <<<<"A">>, <<"A", "l", "f">>>>,
                 <<<<"A", "_", "b">>, <<"A", " ", "B", "e", "e">>>>}),
      NameTable({<<<<"A">>, <<>>>>, <<<<"b">>, <<"B", "e", "e">>>>}) }

NameInit ==
    /\ unitNameMap \in NameTables
    /\ nameMapReady = (unitNameMap # EmptyMap)
    /\ skillDataMap = EmptyMap
    /\ skillDataReady = FALSE
    /\ pc = "name"
    /\ arg \in [definitionId : DefinitionIds]
    /\ ret = Undefined

GetUnitNameCall ==
    /\ pc = "name"
    /\ ret' = getUnitName(arg.definitionId)
    /\ pc' = "named"
    /\ UNCHANGED <<cacheVars, arg>>

NameNext == GetUnitNameCall

SpecName == NameInit /\ [][NameNext]_vars

\* the part of a definition id before its first ':', "" for an id that is
\* empty or missing
RECURSIVE ColonAt(_, _)
ColonAt(s, i) == IF i > Len(s) \/ s[i] = ":" THEN i ELSE ColonAt(s, i + 1)
ClaimedBaseId(id) == IF id.t = "string" THEN SubSeq(id.v, 1, ColonAt(id.v, 1) - 1) ELSE <<>>

\* base with '_' read as ' ', every letter lower case except the first
\* letter of each blank-separated word, which is upper case
IsTitleCaseOf(name, base) ==
    /\ Len(name) = Len(base)
    /\ \A i \in 1..Len(base) :
          LET c == IF base[i] = "_" THEN " " ELSE base[i]
              first == i = 1 \/ base[i - 1] = "_" \/ base[i - 1] = " "
          IN  name[i] = IF first THEN ToUpperChar(c) ELSE ToLowerChar(c)

SomeUnitId == <<"S", "o", "m", "e", " ", "U", "n", "i", "t", " ", "I", "d">>

\* C6: resolveName returns the cached display string when the name table has
\* an entry for the base id (the id up to its first ':'), the title-cased
\* base id otherwise, "Unknown" for an empty or missing id; with an empty
\* cache SOME_UNIT_ID:SEVEN_STAR resolves to "Some Unit Id"; the result is
\* always a string and the call never fails.
ResolveNameTotal ==
    pc = "named"
    => LET base == ClaimedBaseId(arg.definitionId)
       IN  /\ ret.t = "string"
           /\ base \in DOMAIN unitNameMap => ret = unitNameMap[base]
           /\ (base \notin DOMAIN unitNameMap /\ base # <<>>) => IsTitleCaseOf(ret.v, base)
           /\ (base \notin DOMAIN unitNameMap /\ base = <<>>) => ret.v = Unknown
           /\ (unitNameMap = EmptyMap
                 /\ arg.definitionId = Str(SOME_UNIT_ID \o <<":">> \o SEVEN_STAR))
               => ret.v = SomeUnitId

\* what does hold: the same statement for the ids that are strings or
\* falsy, whose base id is no name inherited from Object.prototype and
\* whose cached display string, if any, is not empty
ResolveNameOnStrings ==
    LET base == ClaimedBaseId(arg.definitionId)
    IN  (/\ pc = "named"
         /\ arg.definitionId.t = "string" \/ ~Truthy(arg.definitionId)
         /\ base \notin ObjectPrototypeKeys
         /\ base \in DOMAIN unitNameMap => unitNameMap[base].v # <<>>)
        => ResolveNameTotal

-----------------------------------------------------------------------------
(* One roster unit on its own: each unit of the bounded input set is        *)
(* normalised once, against each state the skill definition table can be    *)
(* in (never loaded, loaded, or left half built by a load that failed).      *)

MaxSkills == 2
MaxSkillTier == 8
MaxRelicRaw == 3

\* the records that carry the field name with one of the values, or lack it
Optional(name, values) == {NoFields} \cup {name :> v : v \in values}

BasicSkillRevan ==
    <<"b", "a", "s", "i", "c", "s", "k", "i", "l", "l", "_">> \o DARTHREVAN
LeaderSkill == <<"l", "e", "a", "d", "e", "r", "s", "k", "i", "l", "l">>

SkillDef(zetaTier, omicronTier) ==
    Obj([isZeta |-> Bool(zetaTier > 0),
         maxTier |-> Num(9),
         zetaTier |-> Num(zetaTier),
         omicronTier |-> Num(omicronTier),
         omicronMode |-> Num(IF omicronTier > 0 THEN 3 ELSE 0)])

\* <<skillDataMap, skillDataReady>> as startup and the refreshes can leave them
SkillTableStates ==
    { <<EmptyMap, FALSE>>,
      <<LeaderSkill :> SkillDef(8, 9), TRUE>>,
      <<LeaderSkill :> SkillDef(0, 7), TRUE>>,
      <<LeaderSkill :> SkillDef(8, 9), FALSE>> }

SkillEntries ==
    { Obj([id |-> Str(id), tier |-> Num(n)]) :
        id \in {BasicSkillRevan, LeaderSkill}, n \in 5..MaxSkillTier }
    \cup { Obj([id |-> Str(Constructor), tier |-> Num(MaxSkillTier)]), Obj(NoFields) }

SkillLists == {Arr(l) : l \in SeqUpTo(SkillEntries, MaxSkills)}

StatOf(id, raw) == Obj([stat |-> Obj(id @@ ("unscaledDecimalValue" :> raw))])

ModSamples ==
    { Obj(NoFields),
      Obj([definitionId |-> Str(<<"4", "5", "1">>), level |-> Num(15), tier |-> Num(5),
           primaryStat |-> StatOf("unitStat" :> Num(5), Str(<<"2", "5", "0", "0", "0", "0">>)),
           secondaryStat |-> Arr(<< StatOf("unitStatId" :> Num(53), Num(1385000))
                                       @@ Obj([statRolls |-> Num(2)]),
                                    Obj([statRolls |-> Num(1)]),
                                    StatOf("unitStatId" :> Num(99), Undefined) >>)]),
      Obj([primaryStat |-> Obj(NoFields), secondaryStat |-> Num(4)]) }

RelicValues ==
    {Obj(NoFields)} \cup {Obj([currentTier |-> Num(n)]) : n \in (0..MaxRelicRaw) \cup {9}}

RevanFields ==
    [definitionId |-> Str(DARTHREVAN \o <<":">> \o SEVEN_STAR),
     currentRarity |-> Num(7), currentLevel |-> Num(85), currentTier |-> Num(13),
     relic |-> Obj([currentTier |-> Num(9)]), combatType |-> Num(1),
     skill |-> Arr(<<Obj([id |-> Str(BasicSkillRevan), tier |-> Num(7)])>>)]

RevanUnit == Obj(RevanFields)

\* units that differ in identity, progression, relic and combat type
UnitsByShape ==
    { Obj(d @@ p @@ g @@ r @@ c @@ k) :
        d \in Optional("definitionId", {Str(DARTHREVAN \o <<":">> \o SEVEN_STAR)}),
        p \in {NoFields, [currentRarity |-> Num(7), currentLevel |-> Num(85)]},
        g \in Optional("currentTier", {Num(1), Num(13)}),
        r \in Optional("relic", RelicValues),
        c \in Optional("combatType", {Num(1), Num(2)}),
        k \in Optional("skill", {Arr(<<>>), RevanFields.skill}) }

\* the end-to-end unit and its ship and untyped variants, with every skill list
UnitsBySkills ==
    { Obj(c @@ k @@ [x \in DOMAIN RevanFields \ {"combatType", "skill"} |-> RevanFields[x]]) :
        c \in Optional("combatType", {Num(1), Num(2)}),
        k \in Optional("skill", SkillLists) }

\* units that differ in their mods, and the malformed ones
UnitsByMods ==
    { Obj(m @@ [x \in DOMAIN RevanFields \ {"equippedStatMod"} |-> RevanFields[x]]) :
        m \in Optional("equippedStatMod", {Arr(l) : l \in SeqUpTo(ModSamples, 1)}) }
    \cup { Obj([definitionId |-> Num(12345)]),
           Obj([skill |-> Str(<<"x">>)]),
           Obj([equippedStatMod |-> Num(1)]) }

Units == UnitsByShape \cup UnitsBySkills \cup UnitsByMods

\* unitStatsMap as built from the playerCharacterStats answer
UnitStatsMaps == {EmptyMap, DARTHREVAN :> Obj([speed |-> Num(312)])}

UnitInit ==
    /\ unitNameMap \in {EmptyMap, NameTable({<<DARTHREVAN, DarthRevan>>})}
    /\ nameMapReady = (unitNameMap # EmptyMap)
    /\ \E st \in SkillTableStates : skillDataMap = st[1] /\ skillDataReady = st[2]
    /\ pc = "unit"
    /\ arg \in [unit : Units, unitStatsMap : UnitStatsMaps]
    /\ ret = Undefined

NormalizeUnitCall ==
    /\ pc = "unit"
    /\ ret' = normalizeUnit(arg.unit, arg.unitStatsMap)
    /\ pc' = "parsed"
    /\ UNCHANGED <<cacheVars, arg>>

UnitNext == NormalizeUnitCall

SpecUnit == UnitInit /\ [][UnitNext]_vars

\* the unit of the end-to-end scenario was normalised with an empty table
RevanParsed ==
    /\ pc = "parsed"
    /\ arg.unit = RevanUnit
    /\ skillDataMap = EmptyMap

\* the fields the end-to-end scenario fixes apart from the two counts
RevanFixedFields ==
    /\ ret.t = "object"
    /\ ret.f.base_id = Str(DARTHREVAN)
    /\ ret.f.rarity = Num(7)
    /\ ret.f.level = Num(85)
    /\ ret.f.gear_level = Num(13)
    /\ ret.f.relic_tier = Num(7)
    /\ ret.f.combat_type = Num(1)

\* C1 as stated: the end-to-end unit normalises, with an empty skill
\* definition table, to base_id DARTHREVAN, rarity 7, level 85, gear_level
\* 13, relic_tier 7, combat_type 1, zeta count 0 and omicron count 1.
RevanNormalizedAsClaimed ==
    RevanParsed
    => /\ RevanFixedFields
       /\ Len(ret.f.zeta_abilities.v) = 0
       /\ Len(ret.f.omicron_abilities.v) = 1

\* C1 amended: the same unit normalises to the same fields with zeta count 1
\* and omicron count 0 (raw tier 7 is in-game tier 8: Tier-A, not Tier-B).
RevanNormalized ==
    RevanParsed
    => /\ RevanFixedFields
       /\ Len(ret.f.zeta_abilities.v) = 1
       /\ Len(ret.f.omicron_abilities.v) = 0

RevanNormalizedWitness ==
    /\ RevanParsed
    /\ ret.t = "object"
    /\ ret.f.relic_tier = Num(7)
    /\ Len(ret.f.zeta_abilities.v) = 1

\* C2: a normalised unit whose combat_type is 2 (starship) has gear_level 0
\* and relic_tier 0, whatever the raw unit carries.
StarshipHasNoGearOrRelic ==
    (pc = "parsed" /\ ret.t = "object" /\ ret.f.combat_type = Num(2))
    => /\ ret.f.gear_level = Num(0)
       /\ ret.f.relic_tier = Num(0)

\* what does hold: a starship has gear_level 0 and no mods, and relic_tier 0
\* when its combat type was inferred
StarshipHasNoGear ==
    (pc = "parsed" /\ ret.t = "object" /\ ret.f.combat_type = Num(2))
    => /\ ret.f.gear_level = Num(0)
       /\ ret.f.mods = Arr(<<>>)
       /\ "combatType" \notin DOMAIN arg.unit.f => ret.f.relic_tier = Num(0)

\* the owned skills of the unit being normalised, and their raw tiers
OwnedSkills == ItemsOrNone(Field(arg.unit, "skill"))
RawTier(sk) == IF "tier" \in DOMAIN sk.f THEN sk.f.tier.v ELSE 0
\* the skill's id is an entry of the definition table and the table is loaded
InLoadedTable(sk) ==
    /\ skillDataReady
    /\ "id" \in DOMAIN sk.f
    /\ sk.f.id.v \in DOMAIN skillDataMap
\* in-game tier = raw tier + 1 reaches the threshold, and there is a threshold
ReachesThreshold(sk, threshold) == threshold > 0 /\ RawTier(sk) + 1 >= threshold
ClaimedTierA(sk) == ReachesThreshold(sk, skillDataMap[sk.f.id.v].f.zetaTier.v)
ClaimedTierB(sk) == ReachesThreshold(sk, skillDataMap[sk.f.id.v].f.omicronTier.v)
Positions(P(_)) == {i \in 1..Len(OwnedSkills) : P(OwnedSkills[i])}
Count(P(_)) == Cardinality(Positions(P))

\* C7: a skill found in the loaded definition table counts as zeta exactly
\* when its zeta threshold is > 0 and raw tier + 1 >= threshold, as omicron
\* likewise with the omicron threshold; the unit's counts are the numbers of
\* skills classified positive (each other skill adds at most one).
SkillDefinitionThresholds ==
    (pc = "parsed" /\ ret.t = "object")
    => LET tierA(sk) == InLoadedTable(sk) /\ ClaimedTierA(sk)
           tierB(sk) == InLoadedTable(sk) /\ ClaimedTierB(sk)
           others == Len(OwnedSkills) - Count(InLoadedTable)
           zetas == Len(ret.f.zeta_abilities.v)
           omicrons == Len(ret.f.omicron_abilities.v)
       IN  /\ Count(tierA) <= zetas /\ zetas <= Count(tierA) + others
           /\ Count(tierB) <= omicrons /\ omicrons <= Count(tierB) + others

SkillDefinitionThresholdsWitness ==
    /\ pc = "parsed"
    /\ ret.t = "object"
    /\ Len(OwnedSkills) = 2
    /\ Count(InLoadedTable) = 2
    /\ Len(ret.f.zeta_abilities.v) = 2
    /\ Len(ret.f.omicron_abilities.v) = 1

\* C8: a skill whose id is not in the definition table, or any skill while
\* the table was never loaded, is classified by in-game tier = raw tier + 1:
\* zeta from 8, omicron from 9, neither below 8.
FallbackHeuristic ==
    (pc = "parsed" /\ ret.t = "object" /\ Count(InLoadedTable) = 0)
    => LET atLeast8(sk) == RawTier(sk) + 1 >= 8
           atLeast9(sk) == RawTier(sk) + 1 >= 9
       IN  /\ Len(ret.f.zeta_abilities.v) = Count(atLeast8)
           /\ Len(ret.f.omicron_abilities.v) = Count(atLeast9)

\* what does hold: the same statement for the units none of whose skill ids
\* is a name inherited from Object.prototype
FallbackHeuristicOwnIds ==
    LET inherited(sk) == "id" \in DOMAIN sk.f /\ sk.f.id.v \in ObjectPrototypeKeys
    IN  Count(inherited) = 0 => FallbackHeuristic


\* the raw unit's gear level, relic tier and explicit combat type, 0 when
\* the payload has none
RawGear == IF Field(arg.unit, "currentTier").t = "number" THEN Field(arg.unit, "currentTier").v ELSE 0
RawRelic ==
    LET relic == Field(arg.unit, "relic")
    IN  IF relic.t = "object" /\ Field(relic, "currentTier").t = "number"
        THEN Field(relic, "currentTier").v ELSE 0
RawCombatType ==
    IF Field(arg.unit, "combatType").t = "number" THEN Field(arg.unit, "combatType").v ELSE 0

\* C18: the combat_type of a normalised unit is the raw unit's explicit
\* combatType when it has one (non-zero); otherwise it is 1 when the gear
\* level is above 1 or the raw relic tier is not 0, and 2 in every other case.
CombatTypeExplicitOrInferred ==
    (pc = "parsed" /\ ret.t = "object") =>
        ret.f.combat_type = IF RawCombatType # 0 THEN Num(RawCombatType)
                            ELSE IF RawGear > 1 \/ RawRelic # 0 THEN Num(1)
                            ELSE Num(2)

\* a unit without combat type and gear was taken for a character on its
\* relic tier alone
CombatTypeInferredWitness ==
    /\ pc = "parsed" /\ ret.t = "object"
    /\ RawCombatType = 0 /\ RawGear <= 1 /\ RawRelic # 0
    /\ ret.f.combat_type = Num(1)

\* C19: the relic_tier of a normalised unit is the raw relic tier minus 2
\* when that is above 2, and 0 when it is 0, 1, 2 or absent; it is never
\* negative.
RelicTierDisplayed ==
    (pc = "parsed" /\ ret.t = "object") =>
        /\ ret.f.relic_tier = IF RawRelic > 2 THEN Num(RawRelic - 2) ELSE Num(0)
        /\ ret.f.relic_tier.v >= 0

\* a unit at raw relic tier 3, the first one displayed, came out at 1
RelicTierDisplayedWitness ==
    /\ pc = "parsed" /\ ret.t = "object"
    /\ RawRelic = 3
    /\ ret.f.relic_tier = Num(1)

-----------------------------------------------------------------------------
(* The player request from the settled comlink calls to the response: the   *)
(* two answers are drawn from bounded families of payloads, each family      *)
(* varying one part of the payload against every state of the caches.        *)

MaxRoster == 2

\* req.params.code after the digits filter and validateAllyCode
AllyCode == Str(<<"1", "2", "3", "4", "5", "6", "7", "8", "9">>)

\* JSON.parse of an object whose members are the pairs, in document order
RECURSIVE FieldsOf(_)
FieldsOf(pairs) ==
    IF pairs = <<>> THEN NoFields
    ELSE FieldsOf(Tail(pairs)) @@ (Head(pairs)[1] :> Head(pairs)[2])

Payload(pairs) ==
    [t |-> "object", f |-> FieldsOf(pairs),
     keys |-> [i \in 1..Len(pairs) |-> pairs[i][1]]]

\* the member lists that carry the field with one of the values, or lack it
Member(name, values) == {<<>>} \cup { << <<name, v>> >> : v \in values }

PlayerName == Str(<<"M", "o", "l">>)

\* a mod with a known flat primary, a percent secondary, a secondary without
\* stat, and a secondary whose stat id is unknown and whose value is missing
SpeedMod ==
    Obj([definitionId |-> Str(<<"4", "5", "1">>), level |-> Num(15), tier |-> Num(5),
         primaryStat |-> StatOf("unitStat" :> Num(5), Str(<<"2", "5", "0", "0", "0", "0">>)),
         secondaryStat |-> Arr(<< StatOf("unitStatId" :> Num(53), Num(1385000)),
                                  Obj([statRolls |-> Num(1)]),
                                  StatOf("unitStatId" :> Num(99), Undefined) >>)])

RosterSamples ==
    { Obj(RevanFields @@ [equippedStatMod |-> Arr(<<SpeedMod, Obj(NoFields)>>)]),
      Obj([definitionId |-> Str(SOME_UNIT_ID), combatType |-> Num(2), currentRarity |-> Num(5)]),
      Obj(NoFields),
      Obj([definitionId |-> Str(DARTHREVAN), combatType |-> Num(1), relic |-> Null,
           equippedStatMod |-> Null,
           skill |-> Arr(<< Obj([id |-> Str(LeaderSkill), tier |-> Num(8)]), Obj(NoFields) >>)]),
      Obj([definitionId |-> Str(Constructor), combatType |-> Num(1),
           skill |-> Arr(<< Obj([id |-> Str(Constructor), tier |-> Num(7)]) >>)]),
      Obj([definitionId |-> Num(12345)]),
      Null }

Rosters == {Arr(l) : l \in SeqUpTo(RosterSamples, MaxRoster)}

\* the settled playerCharacterStats call: rejected, answered with an error
\* status, or answered with a body that parses or does not
StatsAnswers ==
    { [t |-> "rejected"], [t |-> "httpError"], Thrown("SyntaxError"), Null, Obj(NoFields),
      Arr(<< Obj([defId |-> Str(DARTHREVAN \o <<":">> \o SEVEN_STAR),
                  stats |-> Obj(("5" :> Num(312)) @@ ("1" :> Num(50000)))]) >>),
      Obj([roster |-> Arr(<< Obj([baseId |-> Str(DARTHREVAN),
                                  finalStats |-> Obj([Speed |-> Num(300)])]),
                             Obj(NoFields),
                             Obj([defId |-> Num(7)]),
                             Obj([defId |-> Str(SOME_UNIT_ID)]) >>)]) }

PayloadsByRoster ==
    { Payload(<< <<"name", PlayerName>> >> \o r) : r \in Member("rosterUnit", Rosters) }

GpEntry(nameKey, value) == Obj([nameKey |-> Str(nameKey), value |-> value])

ProfileStats ==
    { Null, Arr(<<>>), Num(5),
      Arr(<< GpEntry(<<"S", "T", "A", "T", "_", "G", "A", "L", "A", "C", "T", "I", "C", "_", "P", "O", "W", "E", "R", "_", "A", "C", "Q", "U", "I", "R", "E", "D", "_", "N", "A", "M", "E">>, Str(<<"1", "2", "3", "4">>)),
             GpEntry(<<"S", "T", "A", "T", "_", "C", "H", "A", "R", "A", "C", "T", "E", "R", "_", "G", "A", "L", "A", "C", "T", "I", "C", "_", "P", "O", "W", "E", "R", "_", "A", "C", "Q", "U", "I", "R", "E", "D", "_", "N", "A", "M", "E">>, Str(<<"1", "0", "0", "0">>)),
             GpEntry(<<"s", "t", "a", "t", "_", "s", "h", "i", "p", "_", "g", "a", "l", "a", "c", "t", "i", "c", "_", "p", "o", "w", "e", "r", "_", "a", "c", "q", "u", "i", "r", "e", "d", "_", "n", "a", "m", "e">>, Num(234)) >>),
      Arr(<< Obj([index |-> Num(1), value |-> Num(77)]), Obj(NoFields) >>),
      Arr(<< Obj([nameKey |-> Null, statId |-> Str(<<"1">>)]) >>),
      Arr(<< Obj([nameKey |-> Num(3)]) >>) }

PvpProfiles ==
    { Null, Arr(<<>>), Str(<<"x">>),
      Arr(<< Obj([tab |-> Num(1), rank |-> Num(5)]), Obj([tab |-> Num(2), rank |-> Num(7)]) >>),
      Arr(<< Obj([tab |-> Str(<<"1">>)]), Obj([rank |-> Num(9)]) >>) }

SeasonStatuses ==
    { Arr(<< Obj(NoFields) >>), Arr(<< Null >>),
      Arr(<< Obj(NoFields),
             Obj([league |-> Str(<<"K", "Y", "B", "E", "R">>), division |-> Num(5),
                  seasonPoints |-> Num(100), wins |-> Num(3)]),
             Obj([league |-> Str(<<"B", "R", "O", "N", "Z", "I", "U", "M">>), division |-> Num(20)]) >>) }

PlayerRatings ==
    { Obj(NoFields), Obj([playerRankStatus |-> Obj(NoFields)]),
      Obj([playerRankStatus |-> Obj([leagueId |-> Str(<<"C", "A", "R", "B", "O", "N", "I", "T", "E">>), divisionId |-> Num(10)])]) }

PayloadsByStanding ==
    { Payload(<< <<"name", PlayerName>> >> \o g \o p \o s \o r) :
        g \in Member("profileStat", ProfileStats),
        p \in Member("pvpProfile", PvpProfiles),
        s \in Member("seasonStatus", SeasonStatuses),
        r \in Member("playerRating", PlayerRatings) }

CurrencyEntries ==
    << Obj([id |-> Num(1), quantity |-> Num(500)]),
       Obj([id |-> Str(<<"c", "r", "y", "s", "t", "a", "l">>), value |-> Str(<<"2", "0">>)]),
       Obj([currencyId |-> Num(99), amount |-> Num(3)]),
       Obj([key |-> Str(<<"G", "E", "T", "1">>)]),
       Obj([id |-> Str(<<"G", "W", "_", "C", "R", "E", "D", "I", "T">>), quantity |-> Num(8)]),
       Obj(NoFields) >>

\* the currency members of a payload: under each of the names the handler
\* reads, as a list or a single object, alone or several at once
CurrencyMembers ==
    { <<>>,
      << <<"currency", Arr(<<>>)>> >>,
      << <<"currency", Arr(CurrencyEntries)>> >>,
      << <<"currency", Obj([id |-> Num(2), quantity |-> Num(9)])>> >>,
      << <<"currencyItem", Null>>,
         <<"playerCurrencies", Arr(<< Obj([id |-> Num(4), quantity |-> Num(40)]) >>)>>,
         <<"resourceList", Arr(<< Obj([id |-> Num(5), quantity |-> Num(50)]) >>)>> >>,
      << <<"profileCurrency", Arr(<< Obj([id |-> Str(<<"G", "U", "I", "L", "D", "_", "E", "V", "E", "N", "T", "_", "T", "O", "K", "E", "N", "_", "1">>), amount |-> Num(6)]) >>)>> >>,
      << <<"currency", Str(<<"x">>)>> >>,
      << <<"currency", Arr(<< Null >>)>> >>,
      << <<"currency", Arr(<< CurrencyEntries[5] >>)>> >> }

Affixes ==
    << Obj(NoFields),
       Obj([stat |-> Obj(NoFields)]),
       Obj([statType |-> Num(5), statValue |-> Str(<<"1", "2", "0">>), scope |-> Str(<<"s">>)]),
       Obj([abilityId |-> Str(<<"a">>),
            stat |-> Obj([unitStatId |-> Num(5), unscaledDecimalValue |-> Num(100)])]) >>

DatacronMembers ==
    { <<>>,
      << <<"datacron", Arr(<<>>)>> >>,
      << <<"datacron", Arr(<< Obj(NoFields) >>)>> >>,
      << <<"datacron", Arr(<< Obj([id |-> Str(<<"d", "c">>), setId |-> Num(3), tier |-> Num(9),
                                   locked |-> Bool(TRUE), affix |-> Arr(Affixes)]) >>)>> >>,
      << <<"datacron", Null>>,
         <<"datacronList", Arr(<< Obj([templateId |-> Num(4), level |-> Num(2),
                                       affixList |-> Arr(<<>>)]) >>)>> >>,
      << <<"datacron", Num(5)>> >>,
      << <<"datacron", Arr(<< Obj([affix |-> Str(<<"x">>)]) >>)>> >> }

PayloadsByHoldings ==
    { Payload(<< <<"name", PlayerName>> >> \o c \o d) :
        c \in CurrencyMembers, d \in DatacronMembers }

\* the payload with a name and an empty roster, and the ones around it
PayloadsByIdentity ==
    { Payload(n \o << <<"rosterUnit", Arr(<<>>)>> >> \o a \o g \o l) :
        n \in Member("name", {PlayerName, Str(<<>>)}),
        a \in Member("allyCode", {Str(<<"9", "8", "7", "6", "5", "4", "3", "2", "1">>)}),
        g \in Member("guildName", {Str(<<"G", "l", "d">>)}),
        l \in Member("level", {Num(60)}) }

\* the settled player call: rejected (the 20 s abort signal fired before the
\* headers came, or no connection was made), answered with an error status,
\* or answered with a body whose read raises or gives the parsed payload
PlayerFailures ==
    { [t |-> "rejected", reason |-> "TimeoutError"], [t |-> "rejected", reason |-> "fetch failed"],
      [t |-> "httpError", status |-> 400],
      [t |-> "httpError", status |-> 500],
      Thrown("SyntaxError"), Thrown("TimeoutError"), Null }

\* <<playerRes, statsRes>> as Promise.allSettled can deliver them
SettledCalls ==
    (PayloadsByRoster \X StatsAnswers)
    \cup ((PayloadsByStanding \cup PayloadsByHoldings \cup PayloadsByIdentity \cup PlayerFailures)
            \X {[t |-> "rejected"], Obj(NoFields)})

PlayerInit ==
    /\ unitNameMap \in {EmptyMap, NameTable({<<DARTHREVAN, DarthRevan>>})}
    /\ nameMapReady = (unitNameMap # EmptyMap)
    /\ \E st \in SkillTableStates : skillDataMap = st[1] /\ skillDataReady = st[2]
    /\ pc = "fetching"
    /\ arg = [code |-> AllyCode]
    /\ ret = Undefined

\* await Promise.allSettled([...]): both calls have settled
PlayerSettle ==
    /\ pc = "fetching"
    /\ \E calls \in SettledCalls :
          arg' = [code |-> arg.code, playerRes |-> calls[1], statsRes |-> calls[2]]
    /\ pc' = "settled"
    /\ UNCHANGED <<cacheVars, ret>>

\* the rest of the handler, to the one response it sends
PlayerRespond ==
    /\ pc = "settled"
    /\ ret' = playerResponse(arg.playerRes, arg.code, arg.statsRes)
    /\ pc' = "responded"
    /\ UNCHANGED <<cacheVars, arg>>

PlayerNext == PlayerSettle \/ PlayerRespond

SpecPlayer == PlayerInit /\ [][PlayerNext]_vars

\* a field that is absent or null
Missing(x) == x.t \in {"undefined", "null"}
\* a field that is missing or a list of objects, or missing or a string
MissingOrObjects(x) ==
    Missing(x) \/ (x.t = "array" /\ \A i \in 1..Len(x.v) : x.v[i].t = "object")
MissingOrString(x) == Missing(x) \/ x.t = "string"

CurrencyFieldNames ==
    {"currency", "currencyItem", "profileCurrency", "playerCurrencies", "resourceList"}
DatacronFieldNames == {"datacron", "datacronList"}

\* a roster unit whose identity and lists, where present, have their type
PartialUnit(unit) ==
    /\ MissingOrString(Field(unit, "definitionId"))
    /\ MissingOrObjects(Field(unit, "skill"))
    /\ MissingOrObjects(Field(unit, "equippedStatMod"))
    /\ \A i \in 1..Len(ItemsOrNone(Field(unit, "equippedStatMod"))) :
          MissingOrObjects(Field(Field(unit, "equippedStatMod").v[i], "secondaryStat"))

\* a payload that parsed to an object and is at most partial: any of its
\* fields and sub-fields may be missing, the ones present have their type
PartialPayload(raw) ==
    /\ raw.t = "object"
    /\ MissingOrObjects(Field(raw, "rosterUnit"))
    /\ \A i \in 1..Len(ItemsOrNone(Field(raw, "rosterUnit"))) :
          PartialUnit(Field(raw, "rosterUnit").v[i])
    /\ MissingOrObjects(Field(raw, "profileStat"))
    /\ \A i \in 1..Len(ItemsOrNone(Field(raw, "profileStat"))) :
          MissingOrString(Field(Field(raw, "profileStat").v[i], "nameKey"))
    /\ MissingOrObjects(Field(raw, "pvpProfile"))
    /\ MissingOrObjects(Field(raw, "seasonStatus"))
    /\ \A k \in CurrencyFieldNames :
          MissingOrObjects(Field(raw, k)) \/ Field(raw, k).t = "object"
    /\ \A k \in DatacronFieldNames :
          /\ MissingOrObjects(Field(raw, k))
          /\ \A i \in 1..Len(ItemsOrNone(Field(raw, k))) :
                /\ MissingOrObjects(Field(Field(raw, k).v[i], "affix"))
                /\ MissingOrObjects(Field(Field(raw, k).v[i], "affixList"))

\* the key has no entry in the table, not even an inherited one
Unmatched(table, key) == Get(table, key) = Undefined

\* a decoded secondary o of the raw secondary sec: a missing stat id gives
\* '', a missing value 0, an unknown stat id a whole (flat) number
SecondaryDegrades(sec, o) ==
    LET st == Field(sec, "stat")
    IN  /\ (Missing(Field(st, "unitStatId")) /\ Missing(Field(st, "unitStat")))
              => o.f.stat = Str(<<>>)
        /\ o.f.value.t = "number"
        /\ Missing(Field(st, "unscaledDecimalValue")) => o.f.value = Dec4(0)
        /\ Unmatched(PERCENT_STAT_IDS, o.f.stat.v) => o.f.value.e4 % 10000 = 0
        /\ Missing(Field(sec, "statRolls")) => o.f.rolls = Num(0)

\* a normalised mod o of the raw mod
ModDegrades(mod, o) ==
    /\ Missing(Field(mod, "definitionId")) => o.f.definitionId = Str(<<>>)
    /\ Missing(Field(mod, "level")) => o.f.level = Num(0)
    /\ Missing(Field(mod, "primaryStat")) => o.f.primary = Null
    /\ Missing(Field(mod, "secondaryStat")) => o.f.secondaries = Arr(<<>>)
    /\ \A j \in 1..Len(o.f.secondaries.v) :
          \E k \in 1..Len(ItemsOrNone(Field(mod, "secondaryStat"))) :
              /\ Truthy(Field(Field(mod, "secondaryStat").v[k], "stat"))
              /\ SecondaryDegrades(Field(mod, "secondaryStat").v[k], o.f.secondaries.v[j])

\* the owned skills at or above an in-game tier, the raw tier counting from 0
SkillsAtTier(skills, tier) ==
    Cardinality({i \in 1..Len(skills) :
        (IF Missing(Field(skills[i], "tier")) THEN 0 ELSE Field(skills[i], "tier").v) + 1 >= tier})

\* a normalised unit o of the raw unit: each missing field gives its zero or
\* empty value, an unmatched name the title-cased id, unmatched skills the
\* tier heuristic
UnitDegrades(unit, o) ==
    LET id == ClaimedBaseId(Field(unit, "definitionId"))
        skills == ItemsOrNone(Field(unit, "skill"))
        rawMods == ItemsOrNone(Field(unit, "equippedStatMod"))
    IN  /\ o.f.base_id = Str(id)
        /\ Missing(Field(unit, "definitionId")) => o.f.name = Str(Unknown)
        /\ (id # <<>> /\ Unmatched(unitNameMap, id))
              => (o.f.name.t = "string" /\ IsTitleCaseOf(o.f.name.v, id))
        /\ Missing(Field(unit, "currentRarity")) => o.f.rarity = Num(0)
        /\ Missing(Field(unit, "currentLevel")) => o.f.level = Num(0)
        /\ Missing(Field(unit, "currentTier")) => o.f.gear_level = Num(0)
        /\ Missing(Field(unit, "relic")) => o.f.relic_tier = Num(0)
        /\ Missing(Field(unit, "skill"))
              => (o.f.zeta_abilities = Arr(<<>>) /\ o.f.omicron_abilities = Arr(<<>>))
        /\ (\A i \in 1..Len(skills) :
               \/ ~skillDataReady
               \/ Missing(Field(skills[i], "id"))
               \/ Unmatched(skillDataMap, Field(skills[i], "id").v))
              => /\ Len(o.f.zeta_abilities.v) = SkillsAtTier(skills, 8)
                 /\ Len(o.f.omicron_abilities.v) = SkillsAtTier(skills, 9)
        /\ Missing(Field(unit, "equippedStatMod")) => o.f.mods = Arr(<<>>)
        /\ o.f.combat_type = Num(1)
              => /\ Len(o.f.mods.v) = Len(rawMods)
                 /\ \A i \in 1..Len(rawMods) : ModDegrades(rawMods[i], o.f.mods.v[i])

\* the request was answered after the player payload was fetched and parsed
\* to an at most partial payload
PartialPayloadAnswered == pc = "responded" /\ PartialPayload(arg.playerRes)

\* the units of a sent response, characters first
SentUnits == ret.body.f.characters.v \o ret.body.f.ships.v

\* the playerCharacterStats call gave nothing to merge
StatsUnavailable == arg.statsRes.t \in {"rejected", "httpError", "throw", "null"}

\* every extraction step of a sent response gave the zero, empty or fallback
\* value of each part the payload lacks
ResponseDegrades ==
    LET raw == arg.playerRes
        b == ret.body.f
        units == ItemsOrNone(Field(raw, "rosterUnit"))
        dcs == ItemsOrNone(Or(Field(raw, "datacron"), Field(raw, "datacronList")))
    IN  /\ Missing(Field(raw, "name")) => b.name = Str(Unknown)
        /\ Missing(Field(raw, "allyCode")) => b.ally_code = arg.code
        /\ Missing(Field(raw, "guildName")) => b.guild_name = Str(<<>>)
        /\ Missing(Field(raw, "level")) => b.level = Num(85)
        /\ Missing(Field(raw, "rosterUnit"))
              => (b.characters = Arr(<<>>) /\ b.ships = Arr(<<>>))
        /\ Len(SentUnits) = Len(units)
        /\ \A i \in 1..Len(units) :
              \E j \in 1..Len(SentUnits) : UnitDegrades(units[i], SentUnits[j])
        /\ StatsUnavailable
              => \A j \in 1..Len(SentUnits) :
                    Unmatched(EmptyMap, SentUnits[j].f.base_id.v)
                        => SentUnits[j].f.stats = Undefined
        /\ Missing(Field(raw, "profileStat"))
              => /\ b.galactic_power = Num(0)
                 /\ b.character_galactic_power = Num(0)
                 /\ b.ship_galactic_power = Num(0)
        /\ Missing(Field(raw, "pvpProfile"))
              => (b.arena.f.rank = Null /\ b.fleet_arena.f.rank = Null)
        /\ (Missing(Field(raw, "seasonStatus")) /\ Missing(Field(raw, "playerRating")))
              => b.grand_arena = Obj([rank |-> Null, league_tier |-> Null, division_tier |-> Null])
        /\ (\A k \in CurrencyFieldNames : Missing(Field(raw, k)))
              => b.currencies = Obj(NoFields)
        /\ \A bucket \in DOMAIN b.currencies.f : b.currencies.f[bucket].t = "number"
        /\ (\A k \in DatacronFieldNames : Missing(Field(raw, k)))
              => b.datacrons = Arr(<<>>)
        /\ Len(b.datacrons.v) = Len(dcs)
        /\ \A i \in 1..Len(dcs) :
              /\ Missing(Field(dcs[i], "id")) => b.datacrons.v[i].f.id = Str(<<>>)
              /\ (Missing(Field(dcs[i], "tier")) /\ Missing(Field(dcs[i], "level")))
                    => b.datacrons.v[i].f.level = Num(0)
              /\ (Missing(Field(dcs[i], "affix")) /\ Missing(Field(dcs[i], "affixList")))
                    => b.datacrons.v[i].f.affix = Arr(<<>>)



MinimalPayload(raw) ==
    /\ raw.t = "object"
    /\ DOMAIN raw.f = {"name", "rosterUnit"}
    /\ raw.f.name.t = "string"
    /\ raw.f.rosterUnit = Arr(<<>>)



\* C10: normalising a payload that holds only a name and an empty rosterUnit
\* array never raises: the answer is 200 with an empty characters list, an
\* empty ships list, no currency balance, an empty datacron list, the three
\* galactic power figures 0, and null squad arena, fleet arena and grand
\* arena ranks.
MinimalPayloadNormalizes ==
    (pc = "responded" /\ MinimalPayload(arg.playerRes))
    => /\ ret.status = 200
       /\ ret.body.f.characters = Arr(<<>>)
       /\ ret.body.f.ships = Arr(<<>>)
       /\ ret.body.f.currencies = Obj(NoFields)
       /\ ret.body.f.datacrons = Arr(<<>>)
       /\ ret.body.f.galactic_power = Num(0)
       /\ ret.body.f.character_galactic_power = Num(0)
       /\ ret.body.f.ship_galactic_power = Num(0)
       /\ ret.body.f.arena.f.rank = Null
       /\ ret.body.f.fleet_arena.f.rank = Null
       /\ ret.body.f.grand_arena.f.rank = Null

MinimalPayloadNormalizesWitness ==
    /\ pc = "responded"
    /\ MinimalPayload(arg.playerRes)
    /\ arg.playerRes.f.name = PlayerName
    /\ ret.status = 200
    /\ ret.body.f.name = PlayerName
    /\ ret.body.f.level = Num(85)


\* the player call ran into its time limit, before or after the headers
PlayerCallTimedOut ==
    \/ arg.playerRes.t = "rejected" /\ arg.playerRes.reason = "TimeoutError"
    \/ arg.playerRes.t = "throw" /\ arg.playerRes.name = "TimeoutError"

\* the provider was not reached, or answered with a server error
PlayerCallUnreachable ==
    \/ arg.playerRes.t = "rejected" /\ arg.playerRes.reason = "fetch failed"
    \/ arg.playerRes.t = "httpError" /\ arg.playerRes.status = 500

\* C14: every player request ends with one response, which is the 504
\* 'Comlink request timed out' answer when the player call timed out, and a
\* 502 answer when the provider was unreachable or answered with an error.
PlayerTimeoutIsTyped ==
    pc = "responded" =>
        /\ ret.status \in {200, 404, 500, 502, 504}
        /\ PlayerCallTimedOut =>
               ret.status = 504 /\ ret.error = "Comlink request timed out. Try again."
        /\ PlayerCallUnreachable => ret.status = 502

\* C16: an error answer of the player endpoint carries the text of its
\* category and never the text of the exception that caused it.
PlayerErrorsHideException ==
    (pc = "responded" /\ ret.status >= 400) => "err" \notin DOMAIN ret

\* the raw roster of the request, and the places in it of the units that
\* resolve to ships and to characters
RawRoster == ItemsOrNone(Field(arg.playerRes, "rosterUnit"))
ShipPlaces == {i \in 1..Len(RawRoster) : combatTypeOf(RawRoster[i]) = Num(2)}
CharacterPlaces == (1..Len(RawRoster)) \ ShipPlaces

\* the place in its list of the unit at place i: one more than the units of
\* the same kind before it
PlaceAmong(places, i) == Cardinality({j \in places : j <= i})

\* C17: every raw roster unit is in exactly one of the two lists, ships when
\* its resolved combat type is 2 and characters otherwise, the two lengths
\* sum to the length of rosterUnit, and each list keeps the payload order.
RosterPartitioned ==
    (pc = "responded" /\ ret.status = 200) =>
        LET characters == ret.body.f.characters.v
            ships == ret.body.f.ships.v
            unitStatsMap == unitStatsMapOf(arg.statsRes)
        IN  /\ Len(characters) + Len(ships) = Len(RawRoster)
            /\ Len(ships) = Cardinality(ShipPlaces)
            /\ \A i \in ShipPlaces :
                   ships[PlaceAmong(ShipPlaces, i)] = parsedUnit(RawRoster[i], unitStatsMap)
            /\ \A i \in CharacterPlaces :
                   characters[PlaceAmong(CharacterPlaces, i)] = parsedUnit(RawRoster[i], unitStatsMap)

\* a roster of two different characters, or of two different ships, has been
\* answered
RosterPartitionedWitness ==
    /\ pc = "responded" /\ ret.status = 200
    /\ Len(RawRoster) = 2
    /\ RawRoster[1] # RawRoster[2]
    /\ Cardinality(ShipPlaces) # 1
    /\ Len(ret.body.f.characters.v) + Len(ret.body.f.ships.v) = 2

\* the currency entries of the request's payload
RawCurrencies == ItemsOrNone(currencyArrayOf(arg.playerRes))

\* C24: each entry of the currency array goes into at most one bucket, and
\* an entry no bucket takes adds nothing, so the currencies of the response
\* are never more than the entries of the array.
CurrencyEntryInOneBucket ==
    (pc = "responded" /\ ret.status = 200) =>
        Cardinality(DOMAIN ret.body.f.currencies.f) <= Len(RawCurrencies)

\* the season entries and the ranking entries of the request's payload
RawSeasons == ItemsOrNone(Field(arg.playerRes, "seasonStatus"))
RawRankings == ItemsOrNone(Field(arg.playerRes, "pvpProfile"))
RawRankStatus == Field(Field(arg.playerRes, "playerRating"), "playerRankStatus")

\* the places of the season entries that carry a league, and of the ranking
\* entries of a tab
LeaguePlaces == {i \in 1..Len(RawSeasons) : Truthy(Field(RawSeasons[i], "league"))}
TabPlaces(tab) ==
    {i \in 1..Len(RawRankings) :
        Field(RawRankings[i], "tab") \in {Num(tab), Str(<<Digits[tab + 1]>>)}}

\* the rank of one of the entries of the tab, null when there is none
RankFromTab(rank, tab) ==
    IF TabPlaces(tab) = {} THEN rank = Null
    ELSE \E i \in TabPlaces(tab) : rank = Or(Field(RawRankings[i], "rank"), Null)

\* C25: the league and division of the grand arena are those of the first
\* season entry that carries a league; the rank status gives them only when
\* no season entry carries one; the squad arena rank comes from the entries
\* of tab 1 and the fleet rank from those of tab 2, null when there is none.
GrandArenaFirstLeague ==
    (pc = "responded" /\ ret.status = 200) =>
        LET ga == ret.body.f.grand_arena.f
            first == CHOOSE i \in LeaguePlaces : \A j \in LeaguePlaces : i <= j
        IN  /\ IF LeaguePlaces # {}
               THEN /\ ga.league_tier = Field(RawSeasons[first], "league")
                    /\ ga.division_tier = Field(RawSeasons[first], "division")
               ELSE IF RawRankStatus.t = "object"
               THEN /\ ga.league_tier = Or(Field(RawRankStatus, "leagueId"), Null)
                    /\ ga.division_tier = Or(Field(RawRankStatus, "divisionId"), Null)
               ELSE ga.league_tier = Null /\ ga.division_tier = Null
            /\ RankFromTab(ret.body.f.arena.f.rank, 1)
            /\ RankFromTab(ret.body.f.fleet_arena.f.rank, 2)

\* a payload with two season entries that carry a league, a rank status
\* with another league and rankings of both tabs has been answered
GrandArenaWitness ==
    /\ pc = "responded" /\ ret.status = 200
    /\ Cardinality(LeaguePlaces) = 2
    /\ Truthy(Field(RawRankStatus, "leagueId"))
    /\ ret.body.f.grand_arena.f.league_tier = Str(<<"K", "Y", "B", "E", "R">>)
    /\ ret.body.f.arena.f.rank = Num(5)
    /\ ret.body.f.fleet_arena.f.rank = Num(7)

-----------------------------------------------------------------------------
(* The running server: the two loaders run once at startup and again on     *)
(* their timers, and player requests are served in between. A loader writes *)
(* the caches in the one synchronous block that follows its last await, and *)
(* the handler reads them in the one that follows its own, so each is one   *)
(* step. pc holds where each loader is, with the answers it is waiting for, *)
(* and ret the requests served so far with the caches they found.           *)

MaxRefreshes == 2
MaxRequests == 2

MetaOk ==
    Obj([latestLocalizationBundleVersion |-> Str(<<"v", "1">>), latestGamedataVersion |-> Str(<<"g", "1">>)])

\* the settled calls that give no usable metadata
MetaFailures == { [t |-> "rejected"], Thrown("SyntaxError"), Obj(NoFields) }

\* the settled calls that give no usable bundle
BundleFailures == { [t |-> "rejected"], [t |-> "httpError", status |-> 500], Null }

RevanReborn == <<"R", "e", "v", "a", "n", " ", "R", "e", "b", "o", "r", "n">>
SomeUnit == <<"S", "o", "m", "e", " ", "U", "n", "i", "t">>

\* localization bundles: two versions of the unit names, the second without
\* one unit and with another name, and a wrapped bundle in the looser format
LocBundles ==
    { Payload(<< <<<<"U", "N", "I", "T", "_", "D", "A", "R", "T", "H", "R", "E", "V", "A", "N", "_", "N", "A", "M", "E">>, Str(DarthRevan)>>,
                 <<<<"U", "N", "I", "T", "_", "S", "O", "M", "E", "_", "U", "N", "I", "T", "_", "I", "D", "_", "N", "A", "M", "E">>, Str(SomeUnit)>>,
                 <<<<"U", "N", "I", "T", "_", "D", "A", "R", "T", "H", "R", "E", "V", "A", "N", "_", "D", "E", "S", "C">>, Str(<<"S", "i", "t", "h">>)>> >>),
      Payload(<< <<<<"U", "N", "I", "T", "_", "D", "A", "R", "T", "H", "R", "E", "V", "A", "N", "_", "N", "A", "M", "E">>, Str(DarthRevan)>>,
                 <<<<"U", "N", "I", "T", "_", "D", "A", "R", "T", "H", "R", "E", "V", "A", "N", "_", "N", "A", "M", "E", "_", "V", "2">>, Str(RevanReborn)>> >>),
      Payload(<< <<<<"d", "a", "t", "a">>, Payload(<< <<<<"S", "O", "M", "E", "_", "U", "N", "I", "T", "_", "I", "D", "_", "N", "A", "M", "E">>, Str(SomeUnit)>>,
                                       <<<<"S", "H", "A", "R", "D", "_", "N", "A", "M", "E">>, Str(<<"S">>)>> >>)>> >>) }

\* <<metaRes, locRes>> as one run of loadUnitNames can find them
\* (the bundle is asked for only once the metadata has given a version)
NamesAnswers == ({MetaOk} \X (LocBundles \cup BundleFailures)) \cup (MetaFailures \X {Undefined})

\* a tier list of n upgrades whose only zeta and omicron tiers are the
\* in-game tiers z and o (0 for none)
TierList(n, z, o) ==
    Arr([i \in 1..n |-> Obj([isZetaTier |-> Bool(i + 1 = z), isOmicronTier |-> Bool(i + 1 = o)])])

SkillRecord(id, n, z, o) ==
    Obj([id |-> Str(id), isZeta |-> Bool(z > 0), omicronMode |-> Num(IF o > 0 THEN 3 ELSE 0),
         tierList |-> TierList(n, z, o)])

\* game data bundles: two versions of the skill collection, the second
\* without one skill and with other thresholds, one under another key, and
\* one whose second skill is null
DataBundles ==
    { Payload(<< <<"skill", Arr(<< SkillRecord(LeaderSkill, 8, 8, 9),
                                   SkillRecord(BasicSkillRevan, 7, 0, 0) >>)>> >>),
      Payload(<< <<"skill", Arr(<< SkillRecord(LeaderSkill, 8, 0, 7) >>)>> >>),
      Payload(<< <<"units", Arr(<<>>)>>,
                 <<"unitSkills", Arr(<< SkillRecord(BasicSkillRevan, 8, 8, 0) >>)>> >>),
      Payload(<< <<"skill", Arr(<< SkillRecord(BasicSkillRevan, 8, 8, 0), Null,
                                   SkillRecord(LeaderSkill, 9, 9, 0) >>)>> >>),
      Payload(<< <<"units", Arr(<<>>)>> >>) }

\* <<metaRes, dataRes>> as one run of loadSkillData can find them
SkillsAnswers == ({MetaOk} \X (DataBundles \cup BundleFailures)) \cup (MetaFailures \X {Undefined})

\* a loader that has ended, with what its last lines logged
Ended(logged) == [at |-> "idle", logged |-> logged]
Loading(answers) == [at |-> "loading", metaRes |-> answers[1], bundleRes |-> answers[2]]

\* the payload the requests of a run are answered from
ServedRoster ==
    Arr(<< RevanUnit,
           Obj([definitionId |-> Str(SOME_UNIT_ID), combatType |-> Num(2)]),
           Obj([definitionId |-> Str(DARTHREVAN), combatType |-> Num(1),
                skill |-> Arr(<< Obj([id |-> Str(LeaderSkill), tier |-> Num(7)]) >>)]) >>)

ServedPayload == Payload(<< <<"name", PlayerName>>, <<"rosterUnit", ServedRoster>> >>)

ServerInit ==
    /\ CachesInit
    /\ \E n \in NamesAnswers, s \in SkillsAnswers :
          pc = [names |-> Loading(n), skills |-> Loading(s), listening |-> FALSE, refreshes |-> 0]
    /\ arg = [code |-> AllyCode, playerRes |-> ServedPayload, statsRes |-> [t |-> "rejected"]]
    /\ ret = <<>>

\* loadUnitNames from its last await to its end
NamesLoaded ==
    /\ pc.names.at = "loading"
    /\ LET after == loadUnitNames(pc.names.metaRes, pc.names.bundleRes, unitNameMap, nameMapReady)
       IN  /\ unitNameMap' = after.map
           /\ nameMapReady' = after.ready
    /\ pc' = [pc EXCEPT !.names =
                 Ended(IF loadUnitNamesFails(pc.names.metaRes, pc.names.bundleRes)
                       THEN "Failed to load unit names" ELSE "Loaded unit names")]
    /\ UNCHANGED <<skillDataMap, skillDataReady, arg, ret>>

\* loadSkillData from its last await to its end
SkillsLoaded ==
    /\ pc.skills.at = "loading"
    /\ LET after == loadSkillData(pc.skills.metaRes, pc.skills.bundleRes, skillDataMap, skillDataReady)
       IN  /\ skillDataMap' = after.map
           /\ skillDataReady' = after.ready
    /\ pc' = [pc EXCEPT !.skills =
                 Ended(IF loadSkillDataRaises(pc.skills.metaRes, pc.skills.bundleRes)
                       THEN "Failed to load skill data" ELSE "Skill data map built")]
    /\ UNCHANGED <<unitNameMap, nameMapReady, arg, ret>>

\* a start that listens as soon as the name table's load has ended
ListenEarly ==
    /\ ~pc.listening
    /\ pc.names.at = "idle"
    /\ pc' = [pc EXCEPT !.listening = TRUE]
    /\ UNCHANGED <<cacheVars, arg, ret>>

\* Promise.all([...]).then: app.listen once both startup loads have ended
Listen ==
    /\ ~pc.listening
    /\ pc.names.at = "idle" /\ pc.skills.at = "idle"
    /\ pc' = [pc EXCEPT !.listening = TRUE]
    /\ UNCHANGED <<cacheVars, arg, ret>>

\* setInterval(loadUnitNames, 24 h): the period is far longer than the
\* timeouts of the startup calls, so a tick finds the server listening
NamesTimer ==
    /\ pc.listening /\ pc.names.at = "idle" /\ pc.refreshes < MaxRefreshes
    /\ \E n \in NamesAnswers :
          pc' = [pc EXCEPT !.names = Loading(n), !.refreshes = @ + 1]
    /\ UNCHANGED <<cacheVars, arg, ret>>

\* setInterval(loadSkillData, 24 h)
SkillsTimer ==
    /\ pc.listening /\ pc.skills.at = "idle" /\ pc.refreshes < MaxRefreshes
    /\ \E s \in SkillsAnswers :
          pc' = [pc EXCEPT !.skills = Loading(s), !.refreshes = @ + 1]
    /\ UNCHANGED <<cacheVars, arg, ret>>

\* one player request, from the settled calls to its response
ServePlayer ==
    /\ pc.listening /\ Len(ret) < MaxRequests
    /\ ret' = Append(ret, [unitNameMap |-> unitNameMap, skillDataMap |-> skillDataMap,
                           skillDataReady |-> skillDataReady,
                           response |-> playerResponse(arg.playerRes, arg.code, arg.statsRes)])
    /\ UNCHANGED <<cacheVars, pc, arg>>

ServerNext ==
    \/ NamesLoaded \/ SkillsLoaded \/ Listen \/ NamesTimer \/ SkillsTimer \/ ServePlayer

SpecServer == ServerInit /\ [][ServerNext]_vars

\* the fields of a parsed unit that are read from the caches
CacheFields == {"name", "zeta_abilities", "omicron_abilities"}

\* a parsed unit, and a response body, without the fields read from the caches
WithoutCacheFields(unit) ==
    [k \in DOMAIN unit.f |-> IF k \in CacheFields THEN Null ELSE unit.f[k]]

BodyWithoutCacheFields(body) ==
    [body.f EXCEPT !.characters = [i \in 1..Len(@.v) |-> WithoutCacheFields(@.v[i])],
                   !.ships = [i \in 1..Len(@.v) |-> WithoutCacheFields(@.v[i])]]

\* the caches a served request found
CachesFound(served) == <<served.unitNameMap, served.skillDataMap, served.skillDataReady>>

\* C11 as stated: any two requests of a run, which are answered from the same
\* payload, get the same response, whatever ran between them.
NormalizingTwiceIdentical ==
    \A i, j \in 1..Len(ret) : ret[i].response = ret[j].response

\* C11, amended: two requests answered from the same payload get the same
\* response when they found the same caches, and when a refresh changed a cache
\* between them their responses differ at most in the name, zeta_abilities and
\* omicron_abilities of the units.
NormalizingTwiceIdenticalUpToCaches ==
    \A i, j \in 1..Len(ret) :
        /\ CachesFound(ret[i]) = CachesFound(ret[j]) => ret[i].response = ret[j].response
        /\ ret[i].response.status = 200
        /\ ret[j].response.status = 200
        /\ BodyWithoutCacheFields(ret[i].response.body) = BodyWithoutCacheFields(ret[j].response.body)

\* two requests with a refresh of each cache between them that changed the
\* names and the ability counts of the response
NormalizingTwiceWitness ==
    /\ Len(ret) = 2
    /\ ret[1].unitNameMap # ret[2].unitNameMap
    /\ ret[1].skillDataMap # ret[2].skillDataMap
    /\ \E i \in 1..Len(ret[1].response.body.f.characters.v) :
          LET first == ret[1].response.body.f.characters.v[i].f
              second == ret[2].response.body.f.characters.v[i].f
          IN  /\ first.name # second.name
              /\ first.zeta_abilities # second.zeta_abilities

\* the skill records of a game data answer that name a skill
NamedSkills(dataRes) ==
    LET skills == ItemsOrNone(skillsOf(dataRes))
    IN  {i \in 1..Len(skills) : ~RaisesOnRead(skills[i]) /\ Truthy(Field(skills[i], "id"))}

\* every named skill of the answer is in the map, with the entry of the last
\* record of that name
SkillsWhollyWritten(dataRes, map) ==
    LET skills == ItemsOrNone(skillsOf(dataRes))
        named == NamedSkills(dataRes)
    IN  \A i \in named :
            \/ \E j \in named : j > i /\ Field(skills[j], "id") = Field(skills[i], "id")
            \/ Get(map, Field(skills[i], "id").v) = skillEntry(skills[i])

\* every unit name of the answer is in the table
NamesWhollyWritten(locRes, map) == map = namesBuilt(locRes, map)

\* C12: a run of a loader leaves each cache either as it was or with all the
\* entries of the bundle written, so that a request, which runs between two
\* steps of the loaders, never reads a map with only some of them (the skill
\* map is read through only once skillDataReady is set).
RefreshSeenWhollyOrNotAtAll ==
    [][/\ (pc.skills.at = "loading" /\ pc'.skills.at = "idle") =>
              \/ ~skillDataReady'
              \/ skillDataMap' = skillDataMap
              \/ SkillsWhollyWritten(pc.skills.bundleRes, skillDataMap')
       /\ (pc.names.at = "loading" /\ pc'.names.at = "idle") =>
              \/ unitNameMap' = unitNameMap
              \/ NamesWhollyWritten(pc.names.bundleRes, unitNameMap')]_vars


\* a network call of the run in progress failed: the call was rejected (no
\* connection, timeout), its status was not 2xx, its body was no JSON or
\* null, or the metadata had no version
NameCallFailed(loading) ==
    loading.metaRes \in MetaFailures \/ loading.bundleRes \in BundleFailures

SomeUnitIdCleaned == <<"S", "o", "m", "e", " ", "U", "n", "i", "t", " ", "I", "d">>

\* C13: a run of loadUnitNames one of whose network calls failed leaves the
\* name table and its ready flag as they were, ends in its own catch with
\* nothing raised to the startup chain or the timer, and with the table as
\* it was a unit it does not hold still resolves to its cleaned-up id.
FailedNameLoadChangesNothing ==
    [][(pc.names.at = "loading" /\ pc'.names.at = "idle" /\ NameCallFailed(pc.names)) =>
           /\ unitNameMap' = unitNameMap
           /\ nameMapReady' = nameMapReady
           /\ pc'.names.logged = "Failed to load unit names"
           /\ pc'.listening = pc.listening /\ pc'.skills = pc.skills
           /\ (~Truthy(Get(unitNameMap, SOME_UNIT_ID)) =>
                   getUnitName(Str(SOME_UNIT_ID)) = Str(SomeUnitIdCleaned))
           /\ (Truthy(Get(unitNameMap, SOME_UNIT_ID)) =>
                   getUnitName(Str(SOME_UNIT_ID)) = Get(unitNameMap, SOME_UNIT_ID))]_vars

\* a refresh has failed after a load that had filled the table: the table
\* and the flag are still there, and a request has been answered since
FailedNameLoadWitness ==
    /\ pc.names.at = "idle" /\ pc.names.logged = "Failed to load unit names"
    /\ nameMapReady
    /\ Truthy(Get(unitNameMap, DARTHREVAN))
    /\ ~Truthy(Get(unitNameMap, SOME_UNIT_ID))
    /\ Len(ret) > 0
    /\ ret[Len(ret)].unitNameMap = unitNameMap
    /\ ret[Len(ret)].response.status = 200


\* the caches a bundle gives when nothing was there before
NamesOf(locRes) == namesBuilt(locRes, EmptyMap)
SkillsOf(dataRes) == skillsPass(ItemsOrNone(skillsOf(dataRes)), EmptyMap).map

\* C20: after a run of a loader that succeeded the cache holds exactly the
\* entries of the bundle it fetched, with nothing left of what was there
\* before, and a second run on the same answers would change nothing.
RefreshReplacesCache ==
    [][/\ (pc.names.at = "loading" /\ pc'.names.at = "idle"
              /\ pc'.names.logged = "Loaded unit names") =>
              /\ unitNameMap' = NamesOf(pc.names.bundleRes)
              /\ loadUnitNames(pc.names.metaRes, pc.names.bundleRes, unitNameMap', nameMapReady')
                   = [map |-> unitNameMap', ready |-> nameMapReady']
       /\ (pc.skills.at = "loading" /\ pc'.skills.at = "idle"
              /\ pc'.skills.logged = "Skill data map built") =>
              /\ skillDataMap' = SkillsOf(pc.skills.bundleRes)
              /\ loadSkillData(pc.skills.metaRes, pc.skills.bundleRes, skillDataMap', skillDataReady')
                   = [map |-> skillDataMap', ready |-> skillDataReady']]_vars

\* C21: when the first run of loadSkillData fails, at whatever step, the
\* skill definition map is still empty and its ready flag still false, so
\* that the classification stays on the fixed thresholds.
FailedFirstSkillLoadLeavesEmpty ==
    [][(/\ ~pc.listening
        /\ pc.skills.at = "loading" /\ pc'.skills.at = "idle"
        /\ pc'.skills.logged = "Failed to load skill data") =>
           /\ skillDataMap' = EmptyMap
           /\ ~skillDataReady']_vars

-----------------------------------------------------------------------------
(* The name table build on its own: each flat bundle of the bounded input   *)
(* set is written once into each of two tables, the empty one and one that  *)
(* holds a name already.                                                     *)

MaxEntries == 2

\* keys of the unit name form, plain and versioned, with and without the
\* UNIT_ prefix, keys that only end in _NAME, and keys of neither form
BundleKeys ==
    { <<"U", "N", "I", "T", "_", "D", "A", "R", "T", "H", "R", "E", "V", "A", "N", "_", "N", "A", "M", "E">>, <<"U", "N", "I", "T", "_", "D", "A", "R", "T", "H", "R", "E", "V", "A", "N", "_", "N", "A", "M", "E", "_", "V", "2">>, <<"S", "O", "M", "E", "_", "U", "N", "I", "T", "_", "I", "D", "_", "N", "A", "M", "E">>,
      <<"S", "H", "A", "R", "D", "_", "N", "A", "M", "E">>, <<"S", "H", "A", "R", "D", "_", "N", "A", "M", "E", "_", "V", "2">>, <<"U", "N", "I", "T", "_", "D", "A", "R", "T", "H", "R", "E", "V", "A", "N", "_", "D", "E", "S", "C">>, <<"S", "H", "A", "R", "D", "_", "N", "A", "M", "E", "_", "T", "A", "G">> }

\* values of 11, 1 and 51 characters
BundleValues == { Str(DarthRevan), Str(<<"S">>), Str([i \in 1..51 |-> "x"]) }

\* the flat bundles of up to MaxEntries entries with different keys
FlatBundles ==
    { Payload(l) : l \in { s \in SeqUpTo(BundleKeys \X BundleValues, MaxEntries) :
                              \A i, j \in 1..Len(s) : i # j => s[i][1] # s[j][1] } }

BuildInit ==
    /\ unitNameMap \in {EmptyMap, NameTable({<<DARTHREVAN, RevanReborn>>})}
    /\ nameMapReady = (unitNameMap # EmptyMap)
    /\ skillDataMap = EmptyMap /\ skillDataReady = FALSE
    /\ pc = "fetched"
    /\ arg \in [locData : FlatBundles]
    /\ ret = Undefined

\* step 3 of loadUnitNames on the fetched bundle
BuildNames ==
    /\ pc = "fetched"
    /\ LET after == loadUnitNames(MetaOk, arg.locData, unitNameMap, nameMapReady)
       IN  /\ unitNameMap' = after.map
           /\ nameMapReady' = after.ready
    /\ ret' = unitNameMap
    /\ pc' = "loaded"
    /\ UNCHANGED <<skillDataMap, skillDataReady, arg>>

BuildNext == BuildNames

SpecBuild == BuildInit /\ [][BuildNext]_vars

\* the key ends in _NAME or in _NAME_V and digits: the length of that suffix
NameSuffixOf(key) ==
    IF \E n \in 1..Len(key) : /\ n > 7
                              /\ SubSeq(key, Len(key) - n + 1, Len(key) - n + 7) = <<"_", "N", "A", "M", "E", "_", "V">>
                              /\ \A i \in (Len(key) - n + 8)..Len(key) : IsDigit(key[i])
    THEN CHOOSE n \in 1..Len(key) : /\ n > 7
                                    /\ SubSeq(key, Len(key) - n + 1, Len(key) - n + 7) = <<"_", "N", "A", "M", "E", "_", "V">>
                                    /\ \A i \in (Len(key) - n + 8)..Len(key) : IsDigit(key[i])
    ELSE IF Len(key) >= 5 /\ SubSeq(key, Len(key) - 4, Len(key)) = <<"_", "N", "A", "M", "E">> THEN 5
    ELSE 0

\* the part of the key before that suffix
BeforeNameSuffix(key) == SubSeq(key, 1, Len(key) - NameSuffixOf(key))

\* the strict pattern: a unit fragment and the NAME suffix
IsUnitNameKey(key) ==
    /\ NameSuffixOf(key) > 0 /\ BeforeNameSuffix(key) # <<>>
    /\ \E i \in 1..Len(key) - 3 : SubSeq(key, i, i + 3) = <<"U", "N", "I", "T">>

\* the looser pattern: the NAME suffix and a value of 2 to 50 characters
IsLooseNameKey(key, val) ==
    /\ NameSuffixOf(key) > 0 /\ BeforeNameSuffix(key) # <<>>
    /\ Len(val.v) >= 2 /\ Len(val.v) <= 50

\* the base id an entry is stored under by each pattern
UnitBaseId(key) ==
    LET before == BeforeNameSuffix(key)
    IN  IF Len(before) >= 5 /\ SubSeq(before, 1, 5) = <<"U", "N", "I", "T", "_">>
        THEN SubSeq(before, 6, Len(before)) ELSE before

\* the places of the bundle whose entry goes into the table, and under
\* which id: the strict ones when there is one, else the loose ones
BundleKeyAt(i) == arg.locData.keys[i]
StrictPlaces == {i \in 1..Len(arg.locData.keys) : IsUnitNameKey(BundleKeyAt(i))}
LoosePlaces ==
    {i \in 1..Len(arg.locData.keys) :
        IsLooseNameKey(BundleKeyAt(i), arg.locData.f[BundleKeyAt(i)])}
Contributing == IF StrictPlaces # {} THEN StrictPlaces ELSE LoosePlaces
IdAt(i) == IF StrictPlaces # {} THEN UnitBaseId(BundleKeyAt(i)) ELSE BeforeNameSuffix(BundleKeyAt(i))

\* C23: the looser pattern gives entries only when no key of the bundle
\* matched the strict one; when one did, only the strict keys give entries,
\* each under its key without the UNIT_ prefix and the _NAME suffix. Every
\* other name of the table is as it was.
LoosePatternOnlyWithoutStrict ==
    pc = "loaded" =>
        /\ DOMAIN unitNameMap = DOMAIN ret \cup {IdAt(i) : i \in Contributing}
        /\ \A id \in DOMAIN unitNameMap :
              LET from == {i \in Contributing : IdAt(i) = id}
              IN  IF from = {} THEN unitNameMap[id] = ret[id]
                  ELSE unitNameMap[id] =
                         arg.locData.f[BundleKeyAt(CHOOSE i \in from : \A j \in from : j <= i)]

\* a bundle with a strict key and a key that only the looser pattern takes,
\* with a value it accepts, was built: the second gave no entry
LoosePatternWitness ==
    /\ pc = "loaded"
    /\ StrictPlaces # {}
    /\ LoosePlaces \ StrictPlaces # {}
    /\ \A i \in LoosePlaces \ StrictPlaces : BeforeNameSuffix(BundleKeyAt(i)) \notin DOMAIN unitNameMap

-----------------------------------------------------------------------------
(* One skill definition on its own: each skill record of the bounded input  *)
(* set goes through the body of the loader's forEach once.                   *)

MaxTiers == 3

\* the tiers a list is made of: each marker set or not
TierSamples ==
    { Obj([isZetaTier |-> Bool(z), isOmicronTier |-> Bool(o)]) : z \in BOOLEAN, o \in BOOLEAN }

SkillSamples ==
    { Obj(k :> Arr(l) @@ [id |-> Str(LeaderSkill), omicronMode |-> Num(3)]) :
        k \in {"tierList", "tier"}, l \in SeqUpTo(TierSamples, MaxTiers) }

SkillInit ==
    /\ CachesInit
    /\ pc = "skill"
    /\ arg \in [skill : SkillSamples]
    /\ ret = Undefined

SkillEntryCall ==
    /\ pc = "skill"
    /\ ret' = skillEntry(arg.skill)
    /\ pc' = "stored"
    /\ UNCHANGED <<cacheVars, arg>>

SkillNext == SkillEntryCall

SpecSkill == SkillInit /\ [][SkillNext]_vars

\* the tier list of the skill, and the places in it that carry the marker
TiersGiven == tiersOf(arg.skill).v
Marked(flag) == {i \in 1..Len(TiersGiven) : Field(TiersGiven[i], flag) = Bool(TRUE)}

\* the in-game tier of the first place that carries the marker: the list
\* starts at in-game tier 2
FirstMarkedTier(flag) ==
    IF Marked(flag) = {} THEN 0
    ELSE (CHOOSE i \in Marked(flag) : \A j \in Marked(flag) : i <= j) + 1

\* C22: the entry of a skill has maxTier = length of the tier list + 1 and,
\* for each of the two markers, the in-game tier of the first entry of the
\* list that carries it, 0 when none does.
FirstMarkedTierRecorded ==
    pc = "stored" =>
        /\ ret.f.maxTier = Num(Len(TiersGiven) + 1)
        /\ ret.f.zetaTier = Num(FirstMarkedTier("isZetaTier"))
        /\ ret.f.omicronTier = Num(FirstMarkedTier("isOmicronTier"))

-----------------------------------------------------------------------------
(* One chat request: pc is the place of the handler, arg the request with   *)
(* the number of stream events read so far and what the provider raised,    *)
(* ret what has gone to the client                                          *)

MaxEvents == 3

ChatMessages == {Undefined, Num(5), Str(<<" ">>), Str(<<"h", "i">>)}
ChatAllyCodes == {Undefined, Str(<<"1", "2", "3">>), AllyCode}
ChatHistories ==
    {Undefined, Arr(<<Null>>), Arr(<<Obj([role |-> Str(<<"u", "s", "e", "r">>), content |-> Str(<<"h", "i">>)])>>)}

\* the events of the model's stream the loop tells apart
StreamEvents == {"text_delta", "tool_use", "message_start"}

\* what the stream call, the iteration or finalMessage() can raise
LlmErrors ==
    { [status |-> 429, message |-> "429 rate_limit_error"],
      [status |-> 401, message |-> "401 authentication_error"],
      [status |-> 0, message |-> "Connection error."],
      [status |-> 0, message |-> ""] }

ChatInit ==
    /\ CachesInit
    /\ pc = "received"
    /\ \E m \in ChatMessages, c \in ChatAllyCodes, h \in ChatHistories,
          n \in {0, RATE_LIMIT_MAX - 1, RATE_LIMIT_MAX} :
          arg = [message |-> m, allyCode |-> c, history |-> h, recent |-> n, consumed |-> 0,
                 raised |-> <<>>]
    /\ ret = NoResponse

\* from the start of the handler to res.flushHeaders()
ChatOpen ==
    /\ pc = "received"
    /\ ret' = chatOpened(arg, ret)
    /\ pc' = IF ret'.sse THEN "streaming" ELSE "responded"
    /\ UNCHANGED <<cacheVars, arg>>

\* one turn of for await (var event of stream)
ChatEvent ==
    /\ pc = "streaming" /\ arg.consumed < MaxEvents
    /\ \E event \in StreamEvents : ret' = chatForwarded(event, ret)
    /\ arg' = [arg EXCEPT !.consumed = @ + 1]
    /\ UNCHANGED <<cacheVars, pc>>

\* the stream is exhausted: await stream.finalMessage()
ChatStreamEnd ==
    /\ pc = "streaming"
    /\ pc' = "finalizing"
    /\ UNCHANGED <<cacheVars, arg, ret>>

\* the final message is there: the done event and res.end()
ChatFinal ==
    /\ pc = "finalizing"
    /\ ret' = chatDone(ret)
    /\ pc' = "responded"
    /\ UNCHANGED <<cacheVars, arg>>

\* the stream call, the iteration or finalMessage() raises
ChatFail ==
    /\ pc \in {"streaming", "finalizing"}
    /\ \E err \in LlmErrors :
          /\ ret' = chatCatch(err, ret)
          /\ arg' = [arg EXCEPT !.raised = <<err>>]
    /\ pc' = "responded"
    /\ UNCHANGED cacheVars

ChatNext == ChatOpen \/ ChatEvent \/ ChatStreamEnd \/ ChatFinal \/ ChatFail

\* the loop goes on while the stream yields, and the stream of the model's
\* client ends or raises within its time limit
SpecChat == ChatInit /\ [][ChatNext]_vars /\ WF_vars(ChatNext)

TerminalTypes == {"done", "error"}

\* the events of an opened stream: delta and searching events, then at most
\* one done or error event, which is the last; the channel is closed exactly
\* when that event has been sent
ChatStreamShape ==
    ret.sse =>
        /\ \A i \in 1..Len(ret.events) :
              IF i < Len(ret.events) THEN ret.events[i].type \in {"delta", "searching"}
              ELSE ret.events[i].type \in {"delta", "searching"} \cup TerminalTypes
        /\ ret.ended <=> (Len(ret.events) > 0 /\ ret.events[Len(ret.events)].type \in TerminalTypes)

\* C15: an opened chat stream carries zero or more delta and searching
\* events followed by exactly one terminal event, done or error, with which
\* the channel is closed; nothing follows the terminal event, the channel is
\* never closed without one, and every opened stream gets there.
ChatStreamWellFormed ==
    /\ []ChatStreamShape
    /\ [][ret.ended => ret' = ret]_vars
    /\ (ret.sse ~> ret.ended)

\* a stream that was closed by an error event after a delta and a searching
\* event had gone out
ChatStreamWitness ==
    /\ ret.sse /\ ret.ended
    /\ Len(ret.events) = 3
    /\ ret.events[1].type = "delta" /\ ret.events[2].type = "searching"
    /\ ret.events[3].type = "error"


-----------------------------------------------------------------------------
(* The conversation of one chat request: arg is the body of the request    *)
(* with the number of requests the caller made in the last minute, ret the *)
(* answer of a request turned down or the arguments of the stream call     *)

MaxHistory == 18

\* a text of n characters that ends in z
Text(n) == [i \in 1..n |-> IF i = n THEN "z" ELSE "x"]

\* the i-th entry of a long history: the roles in turn, the contents around
\* the lengths the handler cuts at, now and then no text at all
HistoryEntry(i) ==
    LET role == IF i % 3 = 1 THEN <<"u", "s", "e", "r">> ELSE IF i % 3 = 2 THEN <<"a", "s", "s", "i", "s", "t", "a", "n", "t">> ELSE <<"s", "y", "s", "t", "e", "m">>
        content == IF i % 5 = 0 THEN Num(i)
                   ELSE IF i % 3 = 1 THEN Str(Text(990 + i))
                   ELSE Str(Text(1990 + i))
    IN  Obj([role |-> Str(role), content |-> content])

HistoryOf(n) == Arr([i \in 1..n |-> HistoryEntry(i)])

PromptMessages == {Str(<<" ">>), Str(<<"h", "i">>), Str(Text(2000)), Str(Text(2001))}
PromptRosters == {Undefined, Num(5), Str(<<"J", "K", "L", " ", "r", "7">>)}
PromptHistories ==
    {Undefined, Str(<<"h", "i">>), Arr(<<Null>>)} \cup {HistoryOf(n) : n \in {0, 3, 16, MaxHistory}}
PromptImages ==
    { Undefined,
      Obj([base64 |-> Str(<<"Q", "Q">>), mime_type |-> Str(<<"i", "m", "a", "g", "e", "/", "j", "p", "e", "g">>)]),
      Obj([base64 |-> Str(<<"Q", "Q">>), mime_type |-> Str(<<"t", "e", "x", "t", "/", "h", "t", "m", "l">>)]) }
PromptCallers ==
    { [allyCode |-> Undefined, recent |-> 0],
      [allyCode |-> Str(<<"1", "2", "3">>), recent |-> 0],
      [allyCode |-> Undefined, recent |-> RATE_LIMIT_MAX] }

PromptInit ==
    /\ CachesInit
    /\ pc = "received"
    /\ \/ \E m \in PromptMessages, r \in PromptRosters, h \in PromptHistories,
             i \in PromptImages, c \in PromptCallers :
             arg = [message |-> m, roster_summary |-> r, history |-> h, image |-> i,
                    allyCode |-> c.allyCode, recent |-> c.recent]
       \/ \E m \in {Str(<<"h", "i">>), Str(Text(2001))}, h \in {Undefined, HistoryOf(MaxHistory)} :
             arg = [message |-> m, roster_summary |-> Str(Text(80001)), history |-> h,
                    image |-> Undefined, allyCode |-> Undefined, recent |-> 0]
    /\ ret = NoResponse

\* a request that passes the validation and whose history can be read: the
\* handler builds the conversation and makes the stream call
PromptAssemble ==
    /\ pc = "received"
    /\ chatOpened(arg, NoResponse).sse
    /\ pc' = "streaming"
    /\ ret' = streamCall(arg)
    /\ UNCHANGED <<unitNameMap, nameMapReady, skillDataMap, skillDataReady, arg>>

\* a request that is turned down
PromptRefuse ==
    /\ pc = "received"
    /\ ~chatOpened(arg, NoResponse).sse
    /\ pc' = "refused"
    /\ ret' = chatOpened(arg, NoResponse)
    /\ UNCHANGED <<unitNameMap, nameMapReady, skillDataMap, skillDataReady, arg>>

PromptNext == PromptAssemble \/ PromptRefuse

SpecPrompt == PromptInit /\ [][PromptNext]_vars

\* the first n characters of a text, nothing for what is not a text
CutTo(x, n) ==
    IF x.t # "string" THEN <<>>
    ELSE [i \in 1..(IF Len(x.v) < n THEN Len(x.v) ELSE n) |-> x.v[i]]

\* the entries of the supplied history, the places of its last sixteen
\* entries and, among these, of the entries of a user or an assistant
GivenHistory == ItemsOrNone(arg.history)
LastPlaces == {i \in 1..Len(GivenHistory) : i > Len(GivenHistory) - 16}
KeptPlaces ==
    {i \in LastPlaces : Field(GivenHistory[i], "role") \in {Str(<<"u", "s", "e", "r">>), Str(<<"a", "s", "s", "i", "s", "t", "a", "n", "t">>)}}
KeptPlace(k) == CHOOSE i \in KeptPlaces : Cardinality({j \in KeptPlaces : j <= i}) = k

\* the text of a turn: its content, or the text part after an image
TextOfTurn(turn) ==
    IF turn.content.t = "array" THEN turn.content.v[Len(turn.content.v)].f.text
    ELSE turn.content

\* C26: the conversation of an accepted request has at most 16 prior turns,
\* which are in order the entries of role user or assistant among the last 16
\* entries of the history, a user's text cut to 1000 characters between the
\* user-input marks and an assistant's cut to 2000; the last turn is the one
\* new user turn, its text cut to 2000 characters; the roster summary in the
\* system prompt is cut to 80000 characters.
ConversationBounded ==
    pc = "streaming" =>
        LET n == Len(ret.messages)
        IN  /\ n - 1 <= 16
            /\ n - 1 = Cardinality(KeptPlaces)
            /\ \A k \in 1..(n - 1) :
                  LET h == GivenHistory[KeptPlace(k)]
                  IN  IF Field(h, "role") = Str(<<"u", "s", "e", "r">>)
                      THEN /\ ret.messages[k].role = "user"
                           /\ ret.messages[k].content
                                = Str(UserInput(CutTo(Field(h, "content"), 1000)))
                      ELSE /\ ret.messages[k].role = "assistant"
                           /\ ret.messages[k].content = Str(CutTo(Field(h, "content"), 2000))
            /\ ret.messages[n].role = "user"
            /\ TextOfTurn(ret.messages[n]) = Str(UserInput(CutTo(arg.message, 2000)))
            /\ ret.system \in
                 { SYSTEM_PROMPT,
                   SYSTEM_PROMPT \o RosterOpen \o CutTo(arg.roster_summary, 80000) \o RosterClose }

\* a conversation was built from a history of more than 16 entries, a
\* message of more than 2000 characters and a roster summary of more than
\* 80000: it has fewer turns than the history has entries, and the summary
\* was cut
ConversationWitness ==
    /\ pc = "streaming"
    /\ Len(GivenHistory) > 16
    /\ Len(arg.message.v) > 2000
    /\ arg.roster_summary.t = "string" /\ Len(arg.roster_summary.v) > 80000
    /\ Len(ret.messages) > 1 /\ Len(ret.messages) <= 17
    /\ Len(ret.system) < 80100


\* C27: a chat call the model's provider turns down with status 429 is
\* answered with HTTP 429 'AI rate limit reached. Please wait a moment.', and
\* one it turns down with status 401 with HTTP 500 'Invalid API key'.
LlmRejectionMapped ==
    (pc = "responded" /\ arg.raised # <<>>) =>
        LET err == arg.raised[1]
        IN  /\ err.status = 429 =>
                 /\ ret.status = 429
                 /\ ret.error = "AI rate limit reached. Please wait a moment."
            /\ err.status = 401 =>
                 /\ ret.status = 500
                 /\ ret.error = "Invalid API key. Check ANTHROPIC_API_KEY."


-----------------------------------------------------------------------------
(* The admission of one request to either endpoint: arg is the request     *)
(* with the number of requests the caller made in the last minute and the  *)
(* outbound calls made for it so far, ret what has gone to the client      *)

MaxCodeLen == 11

\* the codes of a player request: the route parameter is a string
AdmitCodes ==
    { AllyCode.v, <<"1", "2", "3", "-", "4", "5", "6", "-", "7", "8", "9">>, <<"a", "1", "2", "3", "4", "5", "6", "7", "8", "9">>, <<"1", "2", "3", "4", "5", "6", "7", "8">>, <<"1", "2", "3", "4", "5", "6", "7", "8", "9", "0">>,
      <<"1", "2", "3", "4", "5", "6", "7", "8", "a">>, <<"a", "b", "c">> } \cup {[i \in 1..MaxCodeLen |-> "7"]}

AdmitAllyCodes ==
    {Undefined, Null, Num(123456789), Str(<<>>)} \cup {Str(code) : code \in AdmitCodes}
AdmitMessages == {Undefined, Null, Num(5), Str(<<>>), Str(<<" ">>), Str(<<"h", "i">>)}
AdmitRecent == {0, RATE_LIMIT_MAX - 1, RATE_LIMIT_MAX}

AdmitInit ==
    /\ CachesInit
    /\ pc = "received"
    /\ \/ \E code \in AdmitCodes, n \in AdmitRecent :
             arg = [endpoint |-> "player", code |-> Str(code), recent |-> n, calls |-> <<>>]
       \/ \E m \in AdmitMessages, c \in AdmitAllyCodes, h \in ChatHistories, n \in AdmitRecent :
             arg = [endpoint |-> "chat", message |-> m, allyCode |-> c, history |-> h,
                    recent |-> n, calls |-> <<>>]
    /\ ret = NoResponse

\* the player handler from its start to Promise.allSettled, where both
\* calls to comlink have been made
AdmitPlayer ==
    /\ pc = "received" /\ arg.endpoint = "player"
    /\ ret' = playerAdmitted(arg, ret)
    /\ IF ret'.headersSent
       THEN pc' = "responded" /\ arg' = arg
       ELSE /\ pc' = "fetching"
            /\ arg' = [arg EXCEPT !.calls = <<"comlink /player", "comlink /playerCharacterStats">>]
    /\ UNCHANGED cacheVars

\* the chat handler from its start to the stream call
AdmitChat ==
    /\ pc = "received" /\ arg.endpoint = "chat"
    /\ ret' = chatOpened(arg, ret)
    /\ IF ret'.sse
       THEN pc' = "streaming" /\ arg' = [arg EXCEPT !.calls = <<"anthropic messages.stream">>]
       ELSE pc' = "responded" /\ arg' = arg
    /\ UNCHANGED cacheVars

AdmitNext == AdmitPlayer \/ AdmitChat

SpecAdmit == AdmitInit /\ [][AdmitNext]_vars

\* a text of exactly nine characters, all digits; a text with nine digits
\* among its characters
NineDigits(s) == Len(s) = 9 /\ \A i \in 1..Len(s) : s[i] \in {Digits[d] : d \in 1..10}
HoldsNineDigits(s) == Cardinality({i \in 1..Len(s) : s[i] \in {Digits[d] : d \in 1..10}}) = 9

\* a message that is missing, not a text or blank
BlankMessage(m) == m.t # "string" \/ \A i \in 1..Len(m.v) : m.v[i] = " "

\* a request that was turned down: no call went out and no stream was opened
TurnedDownBeforeAnyCall ==
    (ret.status \in {429, 400}) => (arg.calls = <<>> /\ ~ret.sse)

\* the answers of the rate-limited requests and of those without a message
AdmitAnswers ==
    /\ arg.recent >= RATE_LIMIT_MAX => ret.status = 429
    /\ (arg.recent < RATE_LIMIT_MAX /\ arg.endpoint = "chat" /\ BlankMessage(arg.message))
            => ret.status = 400

\* the claim as stated: every code that is not exactly nine digits is
\* turned down with 400
ValidatedBeforeOutboundStrict ==
    pc # "received" =>
        /\ AdmitAnswers
        /\ (arg.recent < RATE_LIMIT_MAX /\ arg.endpoint = "player" /\ ~NineDigits(arg.code.v))
                => ret.status = 400
        /\ (/\ arg.recent < RATE_LIMIT_MAX /\ arg.endpoint = "chat" /\ ~BlankMessage(arg.message)
            /\ arg.allyCode \notin {Undefined, Null}
            /\ ~(arg.allyCode.t = "string" /\ NineDigits(arg.allyCode.v)))
                => ret.status = 400
        /\ TurnedDownBeforeAnyCall

\* C28: a rate-limited request gets 429; a player request whose code does
\* not hold exactly nine digits gets 400; a chat request without a message,
\* with a message that is not a text or is blank, or with a supplied ally
\* code that is not a text holding exactly nine digits gets 400; none of
\* these requests causes a call to comlink or to the model's provider, and
\* no event stream is opened for it.
ValidatedBeforeOutbound ==
    pc # "received" =>
        /\ AdmitAnswers
        /\ (arg.recent < RATE_LIMIT_MAX /\ arg.endpoint = "player" /\ ~HoldsNineDigits(arg.code.v))
                => ret.status = 400
        /\ (/\ arg.recent < RATE_LIMIT_MAX /\ arg.endpoint = "chat" /\ ~BlankMessage(arg.message)
            /\ Truthy(arg.allyCode)
            /\ ~(arg.allyCode.t = "string" /\ HoldsNineDigits(arg.allyCode.v)))
                => ret.status = 400
        /\ TurnedDownBeforeAnyCall

\* a player request with a code of eight digits by a caller under the limit
\* was answered 400 and no call went out
ValidatedBeforeOutboundWitness ==
    /\ pc = "responded" /\ arg.endpoint = "player"
    /\ arg.recent < RATE_LIMIT_MAX /\ Len(arg.code.v) = 8
    /\ ret.status = 400 /\ arg.calls = <<>>


-----------------------------------------------------------------------------
(* The rate limiter: arg holds rateLimitMap, the clock and the number of   *)
(* steps taken, ret the timestamps of all accepted requests of each caller *)
(* and the outcome of the last check, pc the kind of the last step         *)

MaxSteps == 3

Ips == {"10.0.0.1", "10.0.0.2"}

\* the time that passes before a step
Elapsed == {0, 1, RATE_LIMIT_WINDOW, RATE_LIMIT_WINDOW + 1}

\* n timestamps a followed by m timestamps b
Stamps(n, a, m, b) == [i \in 1..(n + m) |-> IF i <= n THEN a ELSE b]

\* the maps at the start: what earlier requests within one window left
StartMaps ==
    { <<>>,
      "10.0.0.1" :> Stamps(0, 0, RATE_LIMIT_MAX - 1, RATE_LIMIT_WINDOW),
      "10.0.0.1" :> Stamps(0, 0, RATE_LIMIT_MAX, RATE_LIMIT_WINDOW),
      "10.0.0.1" :> Stamps(RATE_LIMIT_MAX - 1, 0, 1, RATE_LIMIT_WINDOW),
      "10.0.0.1" :> Stamps(10, 0, 10, RATE_LIMIT_WINDOW),
      ("10.0.0.1" :> Stamps(1, 0, 18, 1)) @@ ("10.0.0.2" :> Stamps(0, 0, RATE_LIMIT_MAX, 0)) }

Accepted(ip) == IF ip \in DOMAIN ret.accepted THEN ret.accepted[ip] ELSE <<>>

LimiterInit ==
    /\ CachesInit
    /\ pc = "started"
    /\ \E map \in StartMaps :
          /\ arg = [rateLimitMap |-> map, now |-> RATE_LIMIT_WINDOW, steps |-> 0]
          /\ ret = [accepted |-> map, ip |-> "", allowed |-> TRUE]

\* a request of a caller reaches checkRateLimit
LimiterCheck ==
    /\ arg.steps < MaxSteps
    /\ \E ip \in Ips, d \in Elapsed :
          LET now == arg.now + d
              out == checkRateLimit(arg.rateLimitMap, ip, now)
          IN  /\ arg' = [rateLimitMap |-> out.map, now |-> now, steps |-> arg.steps + 1]
              /\ ret' = [accepted |-> IF out.allowed
                                      THEN (ip :> Append(Accepted(ip), now)) @@ ret.accepted
                                      ELSE ret.accepted,
                         ip |-> ip, allowed |-> out.allowed]
    /\ pc' = "checked"
    /\ UNCHANGED cacheVars

\* the cleanup timer fires
LimiterCleanup ==
    /\ arg.steps < MaxSteps
    /\ \E d \in Elapsed :
          arg' = [rateLimitMap |-> rateLimitCleanup(arg.rateLimitMap, arg.now + d),
                  now |-> arg.now + d, steps |-> arg.steps + 1]
    /\ pc' = "cleaned"
    /\ UNCHANGED <<cacheVars, ret>>

LimiterNext == LimiterCheck \/ LimiterCleanup

SpecLimiter == LimiterInit /\ [][LimiterNext]_vars

\* the accepted requests of a caller with a timestamp in the window that
\* ends at t
InWindow(ip, t) ==
    {i \in 1..Len(Accepted(ip)) :
        Accepted(ip)[i] >= t - RATE_LIMIT_WINDOW /\ Accepted(ip)[i] <= t}

\* the number of accepted requests in a window changes only at a timestamp
\* and is largest in a window that ends at one
AtMostMaxPerWindow ==
    \A ip \in Ips : \A i \in 1..Len(Accepted(ip)) :
        Cardinality(InWindow(ip, Accepted(ip)[i])) <= RATE_LIMIT_MAX

\* the timestamps a map holds for a caller
Held(map, ip) == IF ip \in DOMAIN map THEN map[ip] ELSE <<>>

\* a request that is turned down adds no timestamp
RejectedAddsNothing ==
    (pc' = "checked" /\ ~ret'.allowed) =>
        /\ ret'.accepted = ret.accepted
        /\ \A ip \in Ips :
              \E k \in 0..Len(Held(arg.rateLimitMap, ip)) :
                  Held(arg'.rateLimitMap, ip)
                    = SubSeq(Held(arg.rateLimitMap, ip), k + 1, Len(Held(arg.rateLimitMap, ip)))

\* the cleanup removes timestamps older than the window and callers left
\* without a timestamp, and every later check has the outcome it would have
\* had without the cleanup
CleanupChangesNoOutcome ==
    pc' = "cleaned" =>
        /\ \A ip \in Ips :
              /\ Held(arg'.rateLimitMap, ip)
                   = SelectSeq(Held(arg.rateLimitMap, ip),
                               LAMBDA ts : ts >= arg'.now - RATE_LIMIT_WINDOW)
              /\ ip \in DOMAIN arg'.rateLimitMap => arg'.rateLimitMap[ip] # <<>>
              /\ \A d \in Elapsed :
                    LET with == checkRateLimit(arg'.rateLimitMap, ip, arg'.now + d)
                        without == checkRateLimit(arg.rateLimitMap, ip, arg'.now + d)
                    IN  /\ with.allowed = without.allowed
                        /\ with.map[ip] = without.map[ip]

\* C29: whatever requests and cleanups came before, no caller has more than
\* 20 accepted requests with a timestamp in a window of 60000 ms; a request
\* that is turned down adds no timestamp; the cleanup removes only
\* timestamps older than the window and callers without a timestamp, and
\* changes the outcome of no later check.
RateLimitHolds ==
    /\ []AtMostMaxPerWindow
    /\ [][RejectedAddsNothing]_vars
    /\ [][CleanupChangesNoOutcome]_vars

\* a caller with 20 accepted requests in the window was turned down, and
\* was accepted again once the window had passed
RateLimitWitness ==
    /\ pc = "checked" /\ ret.allowed
    /\ Len(Accepted(ret.ip)) = RATE_LIMIT_MAX + 1
    /\ Len(Held(arg.rateLimitMap, ret.ip)) = 1


-----------------------------------------------------------------------------
(* The start of the server: every call of the loaders carries a time limit *)
(* (15 s, 30 s and 60 s), so each load ends, and the continuation of       *)
(* Promise.all runs once both have                                         *)

\* the loaders, the start and the timers, without the requests
StartNext == NamesLoaded \/ SkillsLoaded \/ Listen \/ NamesTimer \/ SkillsTimer

\* a run of a loader comes to its end, whatever it has written: among the
\* steps of the server these are the steps NamesLoaded, resp. SkillsLoaded
NamesEnd ==
    /\ pc.names.at = "loading"
    /\ \E logged \in {"Failed to load unit names", "Loaded unit names"} :
          pc' = [pc EXCEPT !.names = Ended(logged)]

SkillsEnd ==
    /\ pc.skills.at = "loading"
    /\ \E logged \in {"Failed to load skill data", "Skill data map built"} :
          pc' = [pc EXCEPT !.skills = Ended(logged)]

SpecStart ==
    /\ ServerInit /\ [][StartNext]_vars
    /\ WF_pc(NamesEnd) /\ WF_pc(SkillsEnd) /\ WF_pc(Listen)

\* the first run of both loaders has ended, well or not
InitialLoadsEnded == pc.names.at = "idle" /\ pc.skills.at = "idle"

\* C30: the server starts to listen only when both initial loads have
\* ended, each well or with a failure; it does start to listen in every
\* case, also when both loads fail; a ready flag that is true stays true
\* through every later refresh.
ListensAfterInitialLoads ==
    /\ [][(~pc.listening /\ pc'.listening) => InitialLoadsEnded]_vars
    /\ <>pc.listening
    /\ [][(nameMapReady => nameMapReady') /\ (skillDataReady => skillDataReady')]_vars

\* the server listens although both initial loads failed
ListensAfterFailedLoads ==
    /\ pc.listening /\ pc.refreshes = 0
    /\ pc.names = Ended("Failed to load unit names")
    /\ pc.skills = Ended("Failed to load skill data")
    /\ ~nameMapReady /\ ~skillDataReady

====
